---- MODULE Spec2Model ----
(***************************************************************************)
(* A model of andrewpillar/stripeutil: the subscription orchestrator and   *)
(* the parameter encoder (stripe.go), the subscription predicates          *)
(* (subscription.go), the PostgreSQL store (psql.go), the webhook          *)
(* dispatcher (hook.go) and the tax-rate loader (tax.go).                  *)
(*                                                                         *)
(* Specifications sharing the module:                                      *)
(*   SpecSub   sequential Subscribe / Unsubscribe / Resubscribe calls      *)
(*             against one PSQL store, with the clock advancing between    *)
(*             calls;                                                      *)
(*   SpecStore sequential PSQL.Put and PSQL.Remove calls of payment        *)
(*             methods;                                                    *)
(*   SpecConc  concurrent PSQL.putPaymentMethod callers, one SQL           *)
(*             statement per step;                                         *)
(*   SpecHook  sequential webhook deliveries and handler registrations;    *)
(*   SpecTax   Taxes.Reload with its fetch goroutines;                     *)
(*   SpecEnc   Params.Encode on bounded Params values;                     *)
(*   SpecLife  the orchestrator with several remote subscriptions and no   *)
(*             failing step;                                               *)
(*   SpecCust  sequential Stripe.Customer calls;                           *)
(*   SpecScan  Taxes.loadIds and scanlines on bounded texts;               *)
(*   SpecGet   Taxes.Get calls concurrent with Taxes.Reload, the merge     *)
(*             loop one iteration per step;                                *)
(*   SpecSem   Taxes.Reload over more ids than the semaphore admits, the   *)
(*             goroutines counted by position (SpecSemFair: with every     *)
(*             runnable goroutine eventually scheduled);                   *)
(*   SpecDisp  concurrent HandlerFunc and Handle calls on one HookHandler, *)
(*             one statement per step (SpecDispFair: with every runnable   *)
(*             goroutine eventually scheduled);                            *)
(*   SpecRetry Subscribe calls only, one after another, no step failing    *)
(*             but the payment;                                            *)
(*   SpecUpd   what Subscribe does to the *Customer it is given.           *)
(***************************************************************************)
EXTENDS Integers, Sequences, FiniteSets, TLC

VARIABLES
    now,              \* time.Now(), in whole ticks
    subscriptions,    \* rows of stripe_subscriptions
    invoices,         \* rows of stripe_invoices
    payment_methods,  \* rows of stripe_payment_methods
    nextSub,          \* number of subscriptions the remote side has created
    last,             \* what the most recent orchestrator / store call did
    procs,            \* SpecConc: each putPaymentMethod caller's position
    hstore,           \* HookHandler.store is not nil
    hevents,          \* HookHandler.events: event type -> handler
    eventLog,         \* rows of stripe_events
    hlog,             \* SpecHook: the deliveries so far, oldest first
    hlatest,          \* SpecHook: event type -> handler of the latest Handle call
    scheduled,        \* ids of the subscriptions with a cancellation scheduled
    taxes,            \* SpecTax: the Taxes value and the Reload in progress
    enc,              \* SpecEnc: the Params value and the Encode calls on it
    cust,             \* SpecCust: stripe_customers, the remote customers, the calls
    scan              \* SpecScan: the text read and what the line scanners returned

subVars  == <<now, subscriptions, invoices, nextSub, last>>
concVars == <<procs>>
hookVars == <<hstore, hevents, eventLog, hlog>>
auxVars  == <<taxes, enc, cust, scan>>
vars     == <<now, subscriptions, invoices, payment_methods, nextSub, last,
              procs, hstore, hevents, eventLog, hlog, hlatest, scheduled,
              taxes, enc, cust, scan>>

\* The loader, the encoder, Stripe.Customer and the line scanners are not in
\* use.
AuxInit == taxes = <<>> /\ enc = <<>> /\ cust = <<>> /\ scan = <<>>

(***************************************************************************)
(* Bounds and input domains.                                               *)
(***************************************************************************)
MaxTime       == 1
MaxRemoteSubs == 1
MaxDeliveries == 2
NumEvents     == 2
NumProcs      == 2
MaxIds        == 2
MaxLoads      == 2
MaxLen        == 2
MaxCalls      == 2
MaxLifeSubs   == 2
MaxCustCalls  == 3
MaxText       == 4
MaxTasks      == 12
MaxRetries    == 3

Times     == 0..MaxTime
Customers == {"cus_1", "cus_2"}
PmIds     == {"pm_1", "pm_2"}

\* The customer and the payment method the orchestrator is called with.
Subscribers  == {"cus_1"}
SubscribePms == {"pm_1"}

\* stripe.SubscriptionStatus values the remote side can report.
Statuses == {"active", "incomplete"}

\* stripe.PaymentIntentStatus values the remote side can report.
PIStatuses == {"processing", "succeeded", "requires_payment_method"}

\* current_period_end as the remote side can report it: it may lie past the
\* last tick of the clock.
PeriodEnds == 1..(MaxTime + 1)

(***************************************************************************)
(* subscription.go                                                         *)
(***************************************************************************)
\* sql.NullTime{}: the zero value, Valid = false.
NullTime == [Valid |-> FALSE, Time |-> 0]

\* A nil *Subscription.
NilSub == [id |-> 0, customer_id |-> "", status |-> "", started_at |-> 0,
           ends_at |-> NullTime]

validSubscriptionStatuses == {"all", "active", "trialing"}

\* WithinGrace as its comment has it: true of a subscription that has not
\* been canceled.
WithinGrace_TrueIfNotCanceled(s, t) ==
    IF s = NilSub THEN FALSE
    ELSE IF ~s.ends_at.Valid THEN TRUE
    ELSE t < s.ends_at.Time

\* (*Subscription).WithinGrace, at time t.
WithinGrace(s, t) ==
    IF s = NilSub THEN FALSE
    ELSE IF ~s.ends_at.Valid THEN FALSE
    ELSE t < s.ends_at.Time

\* (*Subscription).Valid with the status consulted before the cancellation
\* time: a subscription with a usable status is valid however old its ends_at.
Valid_StatusFirst(s, t) ==
    IF s = NilSub THEN FALSE
    ELSE IF s.status \in validSubscriptionStatuses THEN TRUE
    ELSE IF s.ends_at.Valid THEN t < s.ends_at.Time
    ELSE FALSE

\* A Valid that knows nothing of the grace period.
Valid_StatusOnly(s, t) ==
    IF s = NilSub THEN FALSE
    ELSE s.status \in validSubscriptionStatuses

\* (*Subscription).Valid, at time t.
Valid(s, t) ==
    IF s = NilSub THEN FALSE
    ELSE IF s.ends_at.Valid THEN t < s.ends_at.Time
    ELSE IF s.status \in validSubscriptionStatuses THEN TRUE
    ELSE FALSE

\* The remote side's answer to a POST on /v1/subscriptions[/id]: the decoded
\* stripe.Subscription (status, current_period_end, the expanded latest
\* invoice and its payment intent).  A nil answer is NilResp.
NilResp == [status |-> "", pi |-> "", period_end |-> 0, inv_status |-> ""]

InvoiceStatuses == {"open", "paid"}

Responses == [status : Statuses, pi : PIStatuses, period_end : PeriodEnds,
              inv_status : InvoiceStatuses]

\* Responses to the update Cancel posts: the payment intent and the invoice
\* are not read.
CancelResponses == {r \in Responses : r.pi = "succeeded" /\ r.inv_status = "paid"}

\* Responses to the update Reactivate posts: current_period_end is not read
\* either.
ReactivateResponses == {r \in CancelResponses : r.period_end = 1}

\* Responses to the creation of a subscription: current_period_end is not read
\* by Subscribe, and the latest invoice is paid exactly when its payment
\* intent has succeeded.
CreateResponses ==
    {r \in Responses : r.period_end = 1 /\ (r.inv_status = "paid" <=> r.pi = "succeeded")}

\* (*Subscription).Cancel once Update has succeeded with response r:
\* (*s) = (*s1), then EndsAt = time.Unix(CurrentPeriodEnd, 0).
Cancel_EndsNow(s, r, t) ==
    [s EXCEPT !.status = r.status,
              !.ends_at = [Valid |-> TRUE, Time |-> t]]

Cancel(s, r, t) ==
    [s EXCEPT !.status = r.status,
              !.ends_at = [Valid |-> TRUE, Time |-> r.period_end]]

\* (*Subscription).Reactivate that forgets to reset EndsAt.
Reactivate_KeepEndsAt(s, r) ==
    [s EXCEPT !.status = r.status]

\* (*Subscription).Reactivate once Update has succeeded with response r:
\* (*s) = (*s1), then EndsAt = sql.NullTime{}.
Reactivate(s, r) ==
    [s EXCEPT !.status = r.status, !.ends_at = NullTime]

(***************************************************************************)
(* psql.go: the tables are sets of rows; every id column is UNIQUE.        *)
(***************************************************************************)
NilPm == [id |-> "", customer_id |-> "", is_default |-> FALSE]

\* UPDATE stripe_payment_methods SET is_default = false WHERE customer_id = c
ClearDefault(tbl, c) ==
    {IF r.customer_id = c THEN [r EXCEPT !.is_default = FALSE] ELSE r : r \in tbl}

\* SELECT id FROM <table> WHERE id = id
SelectId(tbl, id) == {r \in tbl : r.id = id}

\* A Subscription that orders the rows by started_at ascending.
LookupSubscription_Oldest(tbl, c) ==
    LET rows == {r \in tbl : r.customer_id = c}
        top  == {r \in rows : \A q \in rows : q.started_at >= r.started_at}
    IN  IF rows = {} THEN {[ok |-> FALSE, sub |-> NilSub]}
        ELSE {[ok |-> TRUE, sub |-> r] : r \in top}

\* PSQL.Subscription: the rows of the customer ordered by started_at
\* descending, the first one scanned.  Rows with equal started_at come in an
\* order the database chooses, so the result is one of LookupSubscription(c).
LookupSubscription(tbl, c) ==
    LET rows == {r \in tbl : r.customer_id = c}
        top  == {r \in rows : \A q \in rows : q.started_at <= r.started_at}
    IN  IF rows = {} THEN {[ok |-> FALSE, sub |-> NilSub]}
        ELSE {[ok |-> TRUE, sub |-> r] : r \in top}

\* PSQL.putPaymentMethod; fail names the statement that returns an error.
putPaymentMethod(tbl, pm, fail) ==
    LET t1 == IF pm.is_default THEN ClearDefault(tbl, pm.customer_id) ELSE tbl
    IN  IF pm.is_default /\ fail = "pm_clear" THEN [tbl |-> tbl, err |-> "pm_clear"]
        ELSE IF fail = "pm_select" THEN [tbl |-> t1, err |-> "pm_select"]
        ELSE IF SelectId(t1, pm.id) = {}
             THEN IF fail = "pm_insert" THEN [tbl |-> t1, err |-> "pm_insert"]
                  ELSE [tbl |-> t1 \cup {pm}, err |-> "nil"]
        ELSE [tbl |-> t1, err |-> "nil"]

\* A putSubscription whose UPDATE leaves ends_at out.
putSubscription_StatusOnly(tbl, s) ==
    IF SelectId(tbl, s.id) = {} THEN tbl \cup {s}
    ELSE {IF r.id = s.id THEN [r EXCEPT !.status = s.status]
          ELSE r : r \in tbl}

\* PSQL.putSubscription: insert when the id is absent, otherwise update status
\* and ends_at of the row with that id.
putSubscription(tbl, s) ==
    IF SelectId(tbl, s.id) = {} THEN tbl \cup {s}
    ELSE {IF r.id = s.id THEN [r EXCEPT !.status = s.status, !.ends_at = s.ends_at]
          ELSE r : r \in tbl}

\* PSQL.putInvoice: insert when the id is absent, otherwise update status.
putInvoice(tbl, i) ==
    IF SelectId(tbl, i.id) = {} THEN tbl \cup {i}
    ELSE {IF r.id = i.id THEN [r EXCEPT !.status = i.status] ELSE r : r \in tbl}

\* A Remove that reports a missing row as an error.
Remove_ErrIfAbsent(tbl, id, fail) ==
    IF fail = "delete" THEN [tbl |-> tbl, err |-> "delete"]
    ELSE IF SelectId(tbl, id) = {} THEN [tbl |-> tbl, err |-> "ErrNoRows"]
    ELSE [tbl |-> {r \in tbl : r.id # id}, err |-> "nil"]

\* PSQL.Remove on the table of the resource's type:
\* DELETE FROM <table> WHERE id = id; fail names the statement that returns
\* an error.
Remove(tbl, id, fail) ==
    IF fail = "delete" THEN [tbl |-> tbl, err |-> "delete"]
    ELSE [tbl |-> {r \in tbl : r.id # id}, err |-> "nil"]

(***************************************************************************)
(* stripe.go: the orchestrator.  Each operation is an operator from the     *)
(* state it reads and its inputs to an outcome record:                     *)
(*   subs, invs, pms, next   the tables and the remote counter afterwards  *)
(*   err                     "nil", or the step whose error was returned   *)
(*   errInfo                 the ErrPaymentIntent fields, when returned    *)
(*   ret                     the *Subscription returned                    *)
(*   calls                   the remote calls issued, in order             *)
(*   writes                  the Store.Put calls issued, in order          *)
(* fail names the step that returns an error ("none": no step does).       *)
(***************************************************************************)
NilErrInfo == [ID |-> 0, Status |-> ""]

Outcome(subs, invs, pms, next, err, errInfo, ret, calls, writes) ==
    [subs |-> subs, invs |-> invs, pms |-> pms, next |-> next, err |-> err,
     errInfo |-> errInfo, ret |-> ret, calls |-> calls, writes |-> writes]

\* The payment-intent statuses Subscribe accepts, without "processing".
paymentOkStatuses_NoProcessing == {"succeeded"}

\* The payment-intent statuses Subscribe accepts, "requires_payment_method"
\* included.
paymentOkStatuses_RequiresMethod ==
    {"processing", "succeeded", "requires_payment_method"}

\* stripe.go 366-369: the statuses map in Subscribe.
paymentOkStatuses == {"processing", "succeeded"}

\* Subscribe that never takes the short-circuit.
SubscribeShortCircuit_Never(ok, sub, t) == FALSE

\* stripe.go 351-355: if ok { if sub.Valid() { return sub, nil } }
SubscribeShortCircuit(ok, sub, t) == ok /\ Valid(sub, t)

\* A creation that still stores the invoice when the Put of the
\* subscription has failed.
SubscribeCreate_KeepsGoing(subs, invs, pms, next, c, t, calls, writes, fail, r) ==
    LET calls2 == Append(calls, "create_subscription")
        new    == [id |-> next + 1, customer_id |-> c, status |-> r.status,
                   started_at |-> t, ends_at |-> NullTime]
        inv    == [id |-> next + 1, customer_id |-> c, status |-> r.inv_status]
        w2     == Append(Append(writes, "subscription"), "invoice")
    IN  IF fail = "create"
        THEN Outcome(subs, invs, pms, next, "create", NilErrInfo, NilSub, calls2, writes)
        ELSE IF r.pi \in paymentOkStatuses
        THEN IF fail = "sub_put"
             THEN Outcome(subs, putInvoice(invs, inv), pms, next + 1, "sub_put",
                          NilErrInfo, new, calls2, w2)
             ELSE IF fail = "inv_put"
             THEN Outcome(putSubscription(subs, new), invs, pms, next + 1,
                          "inv_put", NilErrInfo, new, calls2, w2)
             ELSE Outcome(putSubscription(subs, new), putInvoice(invs, inv), pms,
                          next + 1, "nil", NilErrInfo, new, calls2, w2)
        ELSE Outcome(subs, invs, pms, next + 1, "payment_intent",
                     [ID |-> inv.id, Status |-> r.pi], new, calls2, writes)

\* A creation that stores the subscription although its payment was
\* refused.
SubscribeCreate_StoresUnpaid(subs, invs, pms, next, c, t, calls, writes, fail, r) ==
    LET calls2 == Append(calls, "create_subscription")
        new    == [id |-> next + 1, customer_id |-> c, status |-> r.status,
                   started_at |-> t, ends_at |-> NullTime]
        inv    == [id |-> next + 1, customer_id |-> c, status |-> r.inv_status]
        w2     == Append(Append(writes, "subscription"), "invoice")
    IN  IF fail = "create"
        THEN Outcome(subs, invs, pms, next, "create", NilErrInfo, NilSub, calls2, writes)
        ELSE IF r.pi \in paymentOkStatuses
        THEN Outcome(putSubscription(subs, new), putInvoice(invs, inv), pms,
                     next + 1, "nil", NilErrInfo, new, calls2, w2)
        ELSE Outcome(putSubscription(subs, new), invs, pms, next + 1,
                     "payment_intent", [ID |-> inv.id, Status |-> r.pi], new,
                     calls2, writes)

\* stripe.go 357-385: the creation of the remote subscription and what
\* follows, given the response r of the remote side.
SubscribeCreate(subs, invs, pms, next, c, t, calls, writes, fail, r) ==
    LET calls2 == Append(calls, "create_subscription")
        new    == [id |-> next + 1, customer_id |-> c, status |-> r.status,
                   started_at |-> t, ends_at |-> NullTime]
        inv    == [id |-> next + 1, customer_id |-> c, status |-> r.inv_status]
        w1     == Append(writes, "subscription")
        w2     == Append(w1, "invoice")
        subs2  == putSubscription(subs, new)
    IN  IF fail = "create"
        THEN Outcome(subs, invs, pms, next, "create", NilErrInfo, NilSub, calls2, writes)
        ELSE IF r.pi \in paymentOkStatuses
        THEN IF fail = "sub_put"
             THEN Outcome(subs, invs, pms, next + 1, "sub_put", NilErrInfo, new, calls2, w1)
             ELSE IF fail = "inv_put"
             THEN Outcome(subs2, invs, pms, next + 1, "inv_put", NilErrInfo, new, calls2, w2)
             ELSE Outcome(subs2, putInvoice(invs, inv), pms, next + 1, "nil",
                          NilErrInfo, new, calls2, w2)
        ELSE Outcome(subs, invs, pms, next + 1, "payment_intent",
                     [ID |-> inv.id, Status |-> r.pi], new, calls2, writes)

\* Stripe.Subscribe(c, pm, params); lk is what s.Subscription(c) returned.
Subscribe(subs, invs, pms, next, c, pmid, t, lk, fail, r) ==
    LET pm == [id |-> pmid, customer_id |-> c, is_default |-> TRUE]
        p  == putPaymentMethod(pms, pm, fail)
        c1 == <<"attach">>
        c2 == <<"attach", "update_customer">>
        w1 == <<"payment_method">>
    IN  IF fail = "lookup"
        THEN Outcome(subs, invs, pms, next, "lookup", NilErrInfo, NilSub, <<>>, <<>>)
        ELSE IF fail = "attach"
        THEN Outcome(subs, invs, pms, next, "attach", NilErrInfo, lk.sub, c1, <<>>)
        ELSE IF fail = "update_customer"
        THEN Outcome(subs, invs, pms, next, "update_customer", NilErrInfo, lk.sub, c2, <<>>)
        ELSE IF p.err # "nil"
        THEN Outcome(subs, invs, p.tbl, next, p.err, NilErrInfo, lk.sub, c2, w1)
        ELSE IF SubscribeShortCircuit(lk.ok, lk.sub, t)
        THEN Outcome(subs, invs, p.tbl, next, "nil", NilErrInfo, lk.sub, c2, w1)
        ELSE SubscribeCreate(subs, invs, p.tbl, next, c, t, c2, w1, fail, r)

\* Resubscribe that reactivates whatever subscription it finds.
ResubscribeProceeds_Always(ok, sub) == ok

\* stripe.go 397-403: Resubscribe goes on only past both early returns.
ResubscribeProceeds(ok, sub) == ok /\ sub.ends_at.Valid

\* Stripe.Resubscribe(c).
Resubscribe(subs, invs, pms, next, c, lk, fail, r) ==
    LET re == Reactivate(lk.sub, r)
    IN  IF fail = "lookup"
        THEN Outcome(subs, invs, pms, next, "lookup", NilErrInfo, NilSub, <<>>, <<>>)
        ELSE IF ~ResubscribeProceeds(lk.ok, lk.sub)
        THEN Outcome(subs, invs, pms, next, "nil", NilErrInfo, NilSub, <<>>, <<>>)
        ELSE IF fail = "reactivate"
        THEN Outcome(subs, invs, pms, next, "reactivate", NilErrInfo, NilSub,
                     <<"reactivate">>, <<>>)
        ELSE IF fail = "sub_put"
        THEN Outcome(subs, invs, pms, next, "sub_put", NilErrInfo, NilSub,
                     <<"reactivate">>, <<"subscription">>)
        ELSE Outcome(putSubscription(subs, re), invs, pms, next, "nil", NilErrInfo,
                     re, <<"reactivate">>, <<"subscription">>)

\* Unsubscribe without the check for an already scheduled cancellation.
UnsubscribeProceeds_NoEndsAtCheck(ok, sub, t) == ok /\ Valid(sub, t)

\* stripe.go 421-431: Unsubscribe goes on only past the three early returns.
UnsubscribeProceeds(ok, sub, t) == ok /\ Valid(sub, t) /\ ~sub.ends_at.Valid

\* Stripe.Unsubscribe(c).
Unsubscribe(subs, invs, pms, next, c, t, lk, fail, r) ==
    LET ca == Cancel(lk.sub, r, t)
    IN  IF fail = "lookup"
        THEN Outcome(subs, invs, pms, next, "lookup", NilErrInfo, NilSub, <<>>, <<>>)
        ELSE IF ~UnsubscribeProceeds(lk.ok, lk.sub, t)
        THEN Outcome(subs, invs, pms, next, "nil", NilErrInfo,
                     IF lk.ok /\ Valid(lk.sub, t) THEN lk.sub ELSE NilSub, <<>>, <<>>)
        ELSE IF fail = "cancel"
        THEN Outcome(subs, invs, pms, next, "cancel", NilErrInfo, NilSub,
                     <<"cancel">>, <<>>)
        ELSE IF fail = "sub_put"
        THEN Outcome(subs, invs, pms, next, "sub_put", NilErrInfo, NilSub,
                     <<"cancel">>, <<"subscription">>)
        ELSE Outcome(putSubscription(subs, ca), invs, pms, next, "nil", NilErrInfo,
                     ca, <<"cancel">>, <<"subscription">>)

(***************************************************************************)
(* SpecSub: sequential calls of the orchestrator and of Store.Put.         *)
(***************************************************************************)
SubscribeFails   == {"none", "lookup", "attach", "update_customer", "pm_clear",
                     "pm_select", "pm_insert", "create", "sub_put", "inv_put"}
UnsubscribeFails == {"none", "lookup", "cancel", "sub_put"}
ResubscribeFails == {"none", "lookup", "reactivate", "sub_put"}
PutFails         == {"none", "pm_clear", "pm_select", "pm_insert"}
RemoveFails      == {"none", "delete"}

\* The default payment methods of customer c.
Defaults(tbl, c) == {r.id : r \in {q \in tbl : q.customer_id = c /\ q.is_default}}

\* The record of a call: its inputs (op, c, pm, at), what the lookup gave
\* (ok, pre), the response the remote side gave to the subscription call
\* (resp, NilResp when none was received), the customer's default payment
\* methods before the call (preDefaults), and the outcome.  again: this call
\* and the call before it were both Subscribe calls for c that found a Valid
\* subscription, or both Remove calls of one id that returned nil.
Record(op, c, pm, t, lk, r, o, pd, again) ==
    [op |-> op, c |-> c, pm |-> pm, at |-> t,
     ok |-> IF o.err = "lookup" THEN FALSE ELSE lk.ok,
     pre |-> IF o.err = "lookup" THEN NilSub ELSE lk.sub,
     resp |-> r, preDefaults |-> pd, again |-> again,
     err |-> o.err, errInfo |-> o.errInfo, ret |-> o.ret,
     calls |-> o.calls, writes |-> o.writes]

NoLookup == [ok |-> FALSE, sub |-> NilSub]

NoOutcome == Outcome({}, {}, {}, 0, "nil", NilErrInfo, NilSub, <<>>, <<>>)

Has(seq, x) == \E i \in 1..Len(seq) : seq[i] = x

NoCall == Record("none", "", NilPm, 0, NoLookup, NilResp, NoOutcome, {}, FALSE)

\* The answers the remote side can give to the subscription call of an
\* operation: one of rs when the operation issues the call and the call does
\* not fail, and none (NilResp) otherwise.  o is the operation's outcome, which
\* issues the call or not whatever the answer is.
Answers(o, call, failed, rs) ==
    IF Has(o.calls, call) /\ o.err # failed THEN rs ELSE {NilResp}

InitCommon ==
    /\ now = 0
    /\ subscriptions = {}
    /\ invoices = {}
    /\ payment_methods = {}
    /\ nextSub = 0
    /\ last = NoCall
    /\ procs = <<>>
    /\ hstore = TRUE
    /\ hevents = <<>>
    /\ eventLog = {}
    /\ hlog = <<>>
    /\ hlatest = <<>>
    /\ scheduled = {}
    /\ AuxInit

InitSub == InitCommon

\* time.Now() moves on between calls; last describes a call only until then.
Tick ==
    /\ now < MaxTime
    /\ now' = now + 1
    /\ last' = NoCall
    /\ UNCHANGED <<subscriptions, invoices, payment_methods, nextSub>>
    /\ UNCHANGED <<procs, hstore, hevents, eventLog, hlog, hlatest, scheduled,
                   taxes, enc, cust, scan>>

\* The cancellations scheduled once the call recorded as rec has returned: a
\* successful Unsubscribe that issued the cancellation schedules one for the
\* subscription it found, a successful Resubscribe that issued the
\* reactivation supersedes it.
Scheduled(sched, rec) ==
    IF rec.op = "Unsubscribe" /\ rec.err = "nil" /\ Has(rec.calls, "cancel")
    THEN sched \cup {rec.pre.id}
    ELSE IF rec.op = "Resubscribe" /\ rec.err = "nil"
            /\ Has(rec.calls, "reactivate")
    THEN sched \ {rec.pre.id}
    ELSE sched

Apply(o, rec) ==
    /\ subscriptions' = o.subs
    /\ scheduled' = Scheduled(scheduled, rec)
    /\ invoices' = o.invs
    /\ payment_methods' = o.pms
    /\ nextSub' = o.next
    /\ last' = rec
    /\ UNCHANGED <<now, procs, hstore, hevents, eventLog, hlog, hlatest, taxes,
                   enc, cust, scan>>

\* A call of Stripe.Subscribe: the failing step is one of fails, the remote
\* side answers the creation with one of rs and creates at most maxSubs
\* subscriptions.
SubscribeCall(maxSubs, fails, rs) ==
    \E c \in Subscribers, pmid \in SubscribePms, fail \in fails :
      \E lk \in LookupSubscription(subscriptions, c) :
      \E rr \in Answers(Subscribe(subscriptions, invoices, payment_methods, nextSub,
                                  c, pmid, now, lk, fail, NilResp),
                        "create_subscription", "create", rs) :
        LET o  == Subscribe(subscriptions, invoices, payment_methods, nextSub,
                            c, pmid, now, lk, fail, rr)
            ag == /\ last.op = "Subscribe" /\ last.c = c
                  /\ last.ok /\ Valid(last.pre, last.at)
                  /\ o.err # "lookup" /\ lk.ok /\ Valid(lk.sub, now)
        IN  /\ o.next <= maxSubs
            /\ Apply(o, Record("Subscribe", c,
                               [id |-> pmid, customer_id |-> c, is_default |-> TRUE],
                               now, lk, rr, o, Defaults(payment_methods, c), ag))

\* A call of Stripe.Unsubscribe.
UnsubscribeCall(fails, rs) ==
    \E c \in Subscribers, fail \in fails :
      \E lk \in LookupSubscription(subscriptions, c) :
      \E rr \in Answers(Unsubscribe(subscriptions, invoices, payment_methods, nextSub,
                                    c, now, lk, fail, NilResp),
                        "cancel", "cancel", rs) :
        LET o  == Unsubscribe(subscriptions, invoices, payment_methods, nextSub,
                              c, now, lk, fail, rr)
        IN  Apply(o, Record("Unsubscribe", c, NilPm, now, lk, rr, o,
                            Defaults(payment_methods, c), FALSE))

\* A call of Stripe.Resubscribe.
ResubscribeCall(fails, rs) ==
    \E c \in Subscribers, fail \in fails :
      \E lk \in LookupSubscription(subscriptions, c) :
      \E rr \in Answers(Resubscribe(subscriptions, invoices, payment_methods, nextSub,
                                    c, lk, fail, NilResp),
                        "reactivate", "reactivate", rs) :
        LET o  == Resubscribe(subscriptions, invoices, payment_methods, nextSub,
                              c, lk, fail, rr)
        IN  Apply(o, Record("Resubscribe", c, NilPm, now, lk, rr, o,
                            Defaults(payment_methods, c), FALSE))

DoSubscribe == SubscribeCall(MaxRemoteSubs, SubscribeFails, CreateResponses)

DoUnsubscribe == UnsubscribeCall(UnsubscribeFails, CancelResponses)

DoResubscribe == ResubscribeCall(ResubscribeFails, ReactivateResponses)

\* PSQL.Put of a *PaymentMethod.
DoPut ==
    \E c \in Customers, pmid \in PmIds, d \in BOOLEAN, fail \in PutFails :
        LET pm == [id |-> pmid, customer_id |-> c, is_default |-> d]
            p  == putPaymentMethod(payment_methods, pm, fail)
            o  == Outcome(subscriptions, invoices, p.tbl, nextSub, p.err,
                          NilErrInfo, NilSub, <<>>, <<"payment_method">>)
        IN  Apply(o, Record("Put", c, pm, now, NoLookup, NilResp, o,
                            Defaults(payment_methods, c), FALSE))

\* PSQL.Remove of a *PaymentMethod; only the ID of the resource is read.
DoRemove ==
    \E c \in Customers, pmid \in PmIds, d \in BOOLEAN, fail \in RemoveFails :
        LET pm == [id |-> pmid, customer_id |-> c, is_default |-> d]
            p  == Remove(payment_methods, pmid, fail)
            o  == Outcome(subscriptions, invoices, p.tbl, nextSub, p.err,
                          NilErrInfo, NilSub, <<>>, <<>>)
            ag == /\ last.op = "Remove" /\ last.pm.id = pmid
                  /\ last.err = "nil" /\ p.err = "nil"
        IN  Apply(o, Record("Remove", c, pm, now, NoLookup, NilResp, o,
                            Defaults(payment_methods, c), ag))

NextSub == Tick \/ DoSubscribe \/ DoUnsubscribe \/ DoResubscribe

SpecSub == InitSub /\ [][NextSub]_vars

(***************************************************************************)
(* SpecLife: the orchestrator over a longer life of one customer, in which *)
(* the remote side creates several subscriptions and no call fails.        *)
(***************************************************************************)
LifeFails == {"none"}

InitLife == InitCommon

LifeSubscribe == SubscribeCall(MaxLifeSubs, LifeFails, CreateResponses)

LifeUnsubscribe == UnsubscribeCall(LifeFails, CancelResponses)

LifeResubscribe == ResubscribeCall(LifeFails, ReactivateResponses)

NextLife == Tick \/ LifeSubscribe \/ LifeUnsubscribe \/ LifeResubscribe

SpecLife == InitLife /\ [][NextLife]_vars

(***************************************************************************)
(* SpecRetry: Subscribe called again and again.                            *)
(***************************************************************************)
InitRetry == InitCommon

RetrySubscribe == SubscribeCall(MaxRetries, LifeFails, CreateResponses)

NextRetry == Tick \/ RetrySubscribe

SpecRetry == InitRetry /\ [][NextRetry]_vars

\* The stored subscriptions of customer c.
RowsOf(c) == {r \in subscriptions : r.customer_id = c}

\* The subscription of c the remote side created last: ids are handed out in
\* the order of creation.
Newest(c) == {r \in RowsOf(c) : \A q \in RowsOf(c) : q.id <= r.id}

\* What Store.Subscription returns is a stored subscription of the customer
\* that no other one of the customer was started after, and it finds one
\* whenever the customer has one.
ReturnsMostRecentlyStarted ==
    \A c \in Subscribers : \A lk \in LookupSubscription(subscriptions, c) :
        /\ lk.ok <=> RowsOf(c) # {}
        /\ lk.ok => /\ lk.sub \in RowsOf(c)
                    /\ \A q \in RowsOf(c) : q.started_at <= lk.sub.started_at

\* The latest call was a Subscribe that found a subscription that was not
\* Valid, created a new one and stored it.
SubscribedAnew ==
    /\ last.op = "Subscribe" /\ last.ok /\ ~Valid(last.pre, last.at)
    /\ Has(last.calls, "create_subscription") /\ last.err = "nil"

\* C22 as stated: Store.Subscription returns the most recently started
\* subscription of the customer, and after a Subscribe that created a new
\* subscription because the one it found was no longer Valid, every lookup of
\* a later operation returns the new subscription.
C22_LatestSubscription ==
    /\ ReturnsMostRecentlyStarted
    /\ SubscribedAnew =>
           LookupSubscription(subscriptions, last.c) =
               {[ok |-> TRUE, sub |-> last.ret]}

\* C22 amended: Store.Subscription returns a most recently started
\* subscription of the customer; whenever the subscription created last for a
\* customer was started strictly after every other one of the customer, every
\* lookup returns it, and so it is after a Subscribe that created a new
\* subscription at a later time than the start of the one it found.
C22_LatestSubscriptionStrict ==
    /\ ReturnsMostRecentlyStarted
    /\ \A c \in Subscribers : \A n \in Newest(c) :
           (\A q \in RowsOf(c) \ {n} : q.started_at < n.started_at) =>
               LookupSubscription(subscriptions, c) = {[ok |-> TRUE, sub |-> n]}
    /\ (SubscribedAnew /\ last.pre.started_at < last.at) =>
           /\ Newest(last.c) = {last.ret}
           /\ LookupSubscription(subscriptions, last.c) =
                  {[ok |-> TRUE, sub |-> last.ret]}

\* With an earlier subscription of the customer still stored, an Unsubscribe
\* call found the subscription created after it and scheduled its
\* cancellation.
C22_Witness ==
    /\ last.op = "Unsubscribe" /\ last.err = "nil" /\ last.calls = <<"cancel">>
    /\ last.pre.id = 2
    /\ \E q \in RowsOf(last.c) : q.id = 1 /\ q.started_at < last.pre.started_at
    /\ last.ret \in Newest(last.c)

(***************************************************************************)
(* SpecStore: sequential Store.Put and Store.Remove calls of payment       *)
(* methods.                                                                *)
(***************************************************************************)
InitStore == InitCommon

NextStore == DoPut \/ DoRemove

SpecStore == InitStore /\ [][NextStore]_vars

\* C37: a Subscribe that returned ErrPaymentIntent left no row for the
\* subscription it created; the Subscribe call that follows it for the same
\* customer calls the creation again; and the remote side has created one
\* more subscription exactly when a Subscribe call has called the creation.
C37_RetryAfterPaymentFailure ==
    /\ []((last.op = "Subscribe" /\ last.err = "payment_intent") =>
            /\ \A r \in subscriptions : r.id # last.ret.id
            /\ Has(last.calls, "create_subscription")
            /\ last.ret.id = nextSub)
    /\ [][(/\ last.op = "Subscribe" /\ last.err = "payment_intent"
            /\ last' # last /\ last'.op = "Subscribe" /\ last'.c = last.c) =>
               (/\ Has(last'.calls, "create_subscription")
                /\ nextSub' = nextSub + 1)]_vars
    /\ [][/\ nextSub' \in {nextSub, nextSub + 1}
          /\ nextSub' = nextSub + 1 <=>
                (/\ last' # last /\ last'.op = "Subscribe"
                 /\ Has(last'.calls, "create_subscription"))]_vars

\* C37, amended: as above, except that the Subscribe call that follows the
\* refused one may instead find a Valid subscription, which then is not the
\* one the refused call created but one stored earlier with the start time
\* of the subscription the refused call had found.
C37_RetryUnlessTie ==
    /\ []((last.op = "Subscribe" /\ last.err = "payment_intent") =>
            /\ \A r \in subscriptions : r.id # last.ret.id
            /\ Has(last.calls, "create_subscription")
            /\ last.ret.id = nextSub)
    /\ [][(/\ last.op = "Subscribe" /\ last.err = "payment_intent"
            /\ last' # last /\ last'.op = "Subscribe" /\ last'.c = last.c) =>
               (\/ /\ Has(last'.calls, "create_subscription")
                   /\ nextSub' = nextSub + 1
                \/ /\ last'.ok /\ Valid(last'.pre, last'.at)
                   /\ last'.err = "nil" /\ nextSub' = nextSub
                   /\ last'.pre.id # last.ret.id
                   /\ last.ok /\ last'.pre # last.pre
                   /\ last'.pre.started_at = last.pre.started_at)]_vars
    /\ [][/\ nextSub' \in {nextSub, nextSub + 1}
          /\ nextSub' = nextSub + 1 <=>
                (/\ last' # last /\ last'.op = "Subscribe"
                 /\ Has(last'.calls, "create_subscription"))]_vars

\* A second Subscribe in a row was refused its payment: the remote side has
\* two subscriptions of the customer and the store none.
C37_Witness ==
    /\ last.op = "Subscribe" /\ last.err = "payment_intent"
    /\ nextSub = 2
    /\ RowsOf(last.c) = {}

(***************************************************************************)
(* Properties of SpecSub.                                                  *)
(***************************************************************************)
\* Every time a cancellation can be scheduled for, and the ticks before it.
AllTimes == 0..(MaxTime + 1)

\* The stored row of subscription id, if any.
Stored(id) == SelectId(subscriptions, id)

\* C1: a Subscribe call that finds a stored, Valid subscription issues no
\* remote subscription-creation call, returns exactly the subscription it
\* found, and leaves that subscription's row as it was; so any number of such
\* calls in a row do the same.
C1_SubscribeIdempotent ==
    (last.op = "Subscribe" /\ last.ok /\ Valid(last.pre, last.at)) =>
        /\ ~Has(last.calls, "create_subscription")
        /\ last.ret = last.pre
        /\ last.pre \in subscriptions
        /\ ~Has(last.writes, "subscription")

\* Two Subscribe calls in a row found the Valid subscription and returned it.
C1_Witness ==
    /\ last.op = "Subscribe" /\ last.again /\ last.err = "nil"
    /\ last.ret = last.pre /\ last.ret # NilSub
    /\ ~Has(last.calls, "create_subscription")

C3_SubscribeSuccess ==
    (/\ last.op = "Subscribe" /\ last.resp # NilResp
     /\ ~(last.ok /\ Valid(last.pre, last.at))
     /\ last.resp.pi \in {"processing", "succeeded"}
     /\ last.err \notin {"sub_put", "inv_put"}) =>
        /\ last.err = "nil"
        /\ last.ret \in subscriptions
        /\ last.ret.id = nextSub /\ last.ret.customer_id = last.c
        /\ last.ret.status = last.resp.status
        /\ \E i \in invoices : i.id = nextSub /\ i.customer_id = last.c

\* A Subscribe call stored a subscription whose payment is still processing.
C3_Witness ==
    /\ last.op = "Subscribe" /\ last.err = "nil"
    /\ last.resp # NilResp /\ last.resp.pi = "processing"
    /\ last.ret \in subscriptions
    /\ \E i \in invoices : i.id = last.ret.id

\* C4: an Unsubscribe call that finds no subscription, or one that is not
\* Valid, or one whose cancellation is already scheduled, issues no remote
\* call and no store write and returns no error; the row it found is as it
\* was.
C4_UnsubscribeNoop ==
    (/\ last.op = "Unsubscribe" /\ last.err # "lookup"
     /\ (~last.ok \/ ~Valid(last.pre, last.at) \/ last.pre.ends_at.Valid)) =>
        /\ last.calls = <<>>
        /\ last.writes = <<>>
        /\ last.err = "nil"
        /\ last.ok => last.pre \in subscriptions

\* An Unsubscribe call found a subscription in its grace period.
C4_Witness ==
    /\ last.op = "Unsubscribe" /\ last.ok
    /\ last.pre.ends_at.Valid /\ Valid(last.pre, last.at)
    /\ last.calls = <<>> /\ last.err = "nil"

\* C5: a successful Unsubscribe call that finds a Valid subscription with no
\* scheduled cancellation issues the remote cancellation, returns the
\* subscription with ends_at set to the current period end the remote side
\* reported, and has stored it; WithinGrace and Valid hold of the stored
\* subscription at every time before ends_at.
C5_UnsubscribeActive ==
    (/\ last.op = "Unsubscribe" /\ last.ok /\ last.err = "nil"
     /\ Valid(last.pre, last.at) /\ ~last.pre.ends_at.Valid) =>
        /\ last.calls = <<"cancel">>
        /\ last.writes = <<"subscription">>
        /\ last.ret.id = last.pre.id
        /\ last.ret.ends_at = [Valid |-> TRUE, Time |-> last.resp.period_end]
        /\ Stored(last.pre.id) = {last.ret}
        /\ \A s \in Stored(last.pre.id) : \A t \in AllTimes :
               t < s.ends_at.Time => (WithinGrace(s, t) /\ Valid(s, t))

\* An Unsubscribe call scheduled a cancellation that lies ahead.
C5_Witness ==
    /\ last.op = "Unsubscribe" /\ last.err = "nil"
    /\ last.calls = <<"cancel">>
    /\ last.ret \in subscriptions
    /\ last.at < last.ret.ends_at.Time

C7_ValidAsDocumented ==
    /\ ~Valid(NilSub, now)
    /\ \A s \in subscriptions :
           Valid(s, now) <=> (\/ s.status \in {"all", "active", "trialing"}
                              \/ (s.ends_at.Valid /\ now < s.ends_at.Time))

\* C9: at most one payment method per customer is the default, and a
\* successful Put of a default payment method for a customer who had a default
\* leaves exactly that payment method as the customer's default.
C9_DefaultInvariant ==
    /\ \A c \in Customers : Cardinality(Defaults(payment_methods, c)) <= 1
    /\ (/\ last.op = "Put" /\ last.err = "nil"
        /\ last.pm.is_default /\ last.preDefaults # {}) =>
           Defaults(payment_methods, last.c) = {last.pm.id}

(***************************************************************************)
(* SpecConc: concurrent callers of PSQL.putPaymentMethod, as Subscribe     *)
(* calls it (pm.Default = true).  The three statements of putPaymentMethod *)
(* run outside any transaction, so each is a step of its own.              *)
(***************************************************************************)
Procs == 1..NumProcs

InitConc ==
    /\ now = 0
    /\ subscriptions = {}
    /\ invoices = {}
    /\ payment_methods = {}
    /\ nextSub = 0
    /\ last = NoCall
    /\ procs = [p \in Procs |-> [pc |-> "start", pm |-> NilPm, id |-> "", err |-> "nil"]]
    /\ hstore = TRUE
    /\ hevents = <<>>
    /\ eventLog = {}
    /\ hlog = <<>>
    /\ hlatest = <<>>
    /\ scheduled = {}
    /\ AuxInit

ConcFrame == UNCHANGED <<now, subscriptions, invoices, nextSub, last,
                         hstore, hevents, eventLog, hlog, hlatest, scheduled,
                         taxes, enc, cust, scan>>

\* stripe.go 344-347: pm.Customer = c.Customer; pm.Default = true; Put(pm).
PutCall(p) ==
    /\ procs[p].pc = "start"
    /\ \E c \in Customers, pmid \in PmIds :
          procs' = [procs EXCEPT ![p] =
                       [pc |-> "clear", err |-> "nil", id |-> "",
                        pm |-> [id |-> pmid, customer_id |-> c, is_default |-> TRUE]]]
    /\ UNCHANGED payment_methods
    /\ ConcFrame

\* psql.go 452-462: the UPDATE that clears the customer's defaults.
PutClear(p) ==
    /\ procs[p].pc = "clear"
    /\ payment_methods' = IF procs[p].pm.is_default
                          THEN ClearDefault(payment_methods, procs[p].pm.customer_id)
                          ELSE payment_methods
    /\ procs' = [procs EXCEPT ![p].pc = "select"]
    /\ ConcFrame

\* psql.go 464-476: the SELECT of the id.
PutSelect(p) ==
    /\ procs[p].pc = "select"
    /\ procs' = [procs EXCEPT
                    ![p].id = IF SelectId(payment_methods, procs[p].pm.id) = {}
                              THEN "" ELSE procs[p].pm.id,
                    ![p].pc = "insert"]
    /\ UNCHANGED payment_methods
    /\ ConcFrame

\* psql.go 478-490: the INSERT when the id was not found; the id column is
\* UNIQUE, so inserting an id that is there by now is an error.
PutInsert(p) ==
    /\ procs[p].pc = "insert"
    /\ IF procs[p].id # ""
       THEN /\ procs' = [procs EXCEPT ![p].pc = "done"]
            /\ UNCHANGED payment_methods
       ELSE IF SelectId(payment_methods, procs[p].pm.id) # {}
       THEN /\ procs' = [procs EXCEPT ![p].pc = "done", ![p].err = "unique"]
            /\ UNCHANGED payment_methods
       ELSE /\ procs' = [procs EXCEPT ![p].pc = "done"]
            /\ payment_methods' = payment_methods \cup {procs[p].pm}
    /\ ConcFrame

NextConc == \E p \in Procs : PutCall(p) \/ PutClear(p) \/ PutSelect(p) \/ PutInsert(p)

SpecConc == InitConc /\ [][NextConc]_vars

\* C10: once the concurrent calls have completed, no customer has two
\* payment methods with default = true.
C10_ConcurrentDefault ==
    (\A p \in Procs : procs[p].pc = "done") =>
        \A c \in Customers : Cardinality(Defaults(payment_methods, c)) <= 1

(***************************************************************************)
(* hook.go: the webhook dispatcher.                                        *)
(***************************************************************************)
EventIds   == 1..NumEvents
EventTypes == {"invoice.paid", "customer.subscription.deleted"}
Handlers   == {"fn_1", "fn_2"}

\* The type of the event with a given id: an event keeps its type across
\* deliveries.
EventType(id) ==
    IF id % 2 = 1 THEN "invoice.paid" ELSE "customer.subscription.deleted"

\* A LogEvent that never reports the id as present.
LogEvent_NeverExists(log, id, fail) ==
    IF fail = "select" THEN [log |-> log, err |-> "store"]
    ELSE IF fail = "insert" THEN [log |-> log, err |-> "store"]
    ELSE [log |-> log \cup {id}, err |-> "nil"]

\* A LogEvent that returns nil for a new id without inserting it.
LogEvent_Forgets(log, id, fail) ==
    IF fail = "select" THEN [log |-> log, err |-> "store"]
    ELSE IF id \in log THEN [log |-> log, err |-> "ErrEventExists"]
    ELSE IF fail = "insert" THEN [log |-> log, err |-> "store"]
    ELSE [log |-> log, err |-> "nil"]

\* PSQL.LogEvent; fail names the statement that returns an error.
LogEvent(log, id, fail) ==
    IF fail = "select" THEN [log |-> log, err |-> "store"]
    ELSE IF id \in log THEN [log |-> log, err |-> "ErrEventExists"]
    ELSE IF fail = "insert" THEN [log |-> log, err |-> "store"]
    ELSE [log |-> log \cup {id}, err |-> "nil"]

\* A Handle that keeps the handler already registered for the type.
Handle_KeepFirst(events, type, fn) ==
    [t \in (DOMAIN events) \cup {type} |->
        IF t \in DOMAIN events THEN events[t] ELSE fn]

\* (*HookHandler).Handle(event, fn): h.events[event] = fn.
Handle(events, type, fn) ==
    [t \in (DOMAIN events) \cup {type} |-> IF t = type THEN fn ELSE events[t]]

\* What a delivery did: the status written by HandlerFunc ("handler" when the
\* response was left to the invoked handler), the handler invoked ("" for
\* none), whether errh was called, and the event log afterwards.
Delivery(status, invoked, errh, log) ==
    [status |-> status, invoked |-> invoked, errh |-> errh, log |-> log]

\* A HandlerFunc that goes on after a failed signature verification.
HandlerFunc_NoVerify(store, events, log, id, readOk, sigOk, fail) ==
    LET l        == LogEvent(log, id, fail)
        log2     == IF store /\ l.err = "nil" THEN l.log ELSE log
        dispatch == IF EventType(id) \in DOMAIN events
                    THEN Delivery("handler", events[EventType(id)], FALSE, log2)
                    ELSE Delivery("200", "", FALSE, log2)
    IN  IF ~readOk THEN Delivery("503", "", TRUE, log)
        ELSE IF store /\ l.err # "nil"
             THEN IF l.err # "ErrEventExists" THEN Delivery("500", "", TRUE, log)
                  ELSE Delivery("202", "", FALSE, log)
        ELSE dispatch

\* A HandlerFunc that looks the handler up first and only records the event
\* when it has one to invoke.
HandlerFunc_LookupFirst(store, events, log, id, readOk, sigOk, fail) ==
    LET l        == LogEvent(log, id, fail)
        log2     == IF store /\ l.err = "nil" THEN l.log ELSE log
    IN  IF ~readOk THEN Delivery("503", "", TRUE, log)
        ELSE IF ~sigOk THEN Delivery("400", "", TRUE, log)
        ELSE IF EventType(id) \notin DOMAIN events
             THEN Delivery("200", "", FALSE, log)
        ELSE IF store /\ l.err # "nil"
             THEN IF l.err # "ErrEventExists" THEN Delivery("500", "", TRUE, log)
                  ELSE Delivery("202", "", FALSE, log)
        ELSE Delivery("handler", events[EventType(id)], FALSE, log2)

\* (*HookHandler).HandlerFunc(w, r) for a request carrying event id; readOk:
\* ioutil.ReadAll succeeds; sigOk: webhook.ConstructEvent succeeds.
HandlerFunc(store, events, log, id, readOk, sigOk, fail) ==
    LET l        == LogEvent(log, id, fail)
        log2     == IF store /\ l.err = "nil" THEN l.log ELSE log
        dispatch == IF EventType(id) \in DOMAIN events
                    THEN Delivery("handler", events[EventType(id)], FALSE, log2)
                    ELSE Delivery("200", "", FALSE, log2)
    IN  IF ~readOk THEN Delivery("503", "", TRUE, log)
        ELSE IF ~sigOk THEN Delivery("400", "", TRUE, log)
        ELSE IF store /\ l.err # "nil"
             THEN IF l.err # "ErrEventExists" THEN Delivery("500", "", TRUE, log)
                  ELSE Delivery("202", "", FALSE, log)
        ELSE dispatch

LogFails == {"none", "select", "insert"}

InitHook ==
    /\ now = 0
    /\ subscriptions = {}
    /\ invoices = {}
    /\ payment_methods = {}
    /\ nextSub = 0
    /\ last = NoCall
    /\ procs = <<>>
    /\ hstore \in BOOLEAN
    /\ hevents = <<>>
    /\ eventLog = {}
    /\ hlog = <<>>
    /\ hlatest = <<>>
    /\ scheduled = {}
    /\ AuxInit

HookFrame == UNCHANGED <<now, subscriptions, invoices, payment_methods, nextSub,
                         last, procs, hstore, scheduled, taxes, enc, cust,
                         scan>>

DoHandle ==
    \E type \in EventTypes, fn \in Handlers :
        /\ hevents' = Handle(hevents, type, fn)
        /\ hlatest' = [t \in (DOMAIN hlatest) \cup {type} |->
                           IF t = type THEN fn ELSE hlatest[t]]
        /\ UNCHANGED <<eventLog, hlog>>
        /\ HookFrame

\* A delivery, recorded with the event's id, the handler registered for its
\* type when it arrived ("" for none), the handler of the latest Handle call
\* for its type ("" for none), what the request met (an input that
\* HandlerFunc does not get to is recorded as TRUE or "none"), the ids the
\* delivery added to the event log and what HandlerFunc did.
DoDeliver ==
    \E id \in EventIds, readOk \in BOOLEAN, sigOk \in BOOLEAN, fail \in LogFails :
        LET d   == HandlerFunc(hstore, hevents, eventLog, id, readOk, sigOk, fail)
            reg == IF EventType(id) \in DOMAIN hevents
                   THEN hevents[EventType(id)] ELSE ""
            lt  == IF EventType(id) \in DOMAIN hlatest
                   THEN hlatest[EventType(id)] ELSE ""
        IN  /\ Len(hlog) < MaxDeliveries
            /\ ~readOk => sigOk
            /\ ~(readOk /\ sigOk /\ hstore) => fail = "none"
            /\ eventLog' = d.log
            /\ hlog' = Append(hlog, [id |-> id, registered |-> reg,
                                     latest |-> lt,
                                     readOk |-> readOk, sigOk |-> sigOk,
                                     fail |-> fail, seen |-> id \in eventLog,
                                     logged |-> d.log \ eventLog,
                                     status |-> d.status, invoked |-> d.invoked,
                                     errh |-> d.errh])
            /\ UNCHANGED <<hevents, hlatest>>
            /\ HookFrame

NextHook == DoHandle \/ DoDeliver

SpecHook == InitHook /\ [][NextHook]_vars

\* A delivery that was read, verified and met no store failure.
Clean(d) == d.status \notin {"503", "400", "500"}

\* The first clean delivery of its event.
FirstClean(i) ==
    /\ Clean(hlog[i])
    /\ \A k \in 1..(i - 1) : hlog[k].id = hlog[i].id => ~Clean(hlog[k])

\* C8: with a store configured, of two clean deliveries of the same event
\* that both found a handler registered for its type, the first invokes that
\* handler, the second is answered 202 and invokes none, and over all
\* deliveries of the event the handler is invoked exactly once.
C8_WebhookDedup ==
    hstore =>
        \A i, j \in 1..Len(hlog) :
            (/\ i < j /\ hlog[i].id = hlog[j].id
             /\ FirstClean(i) /\ Clean(hlog[j])
             /\ hlog[i].registered # "" /\ hlog[j].registered # "") =>
                /\ hlog[i].status = "handler"
                /\ hlog[i].invoked = hlog[i].registered
                /\ hlog[j].status = "202"
                /\ hlog[j].invoked = ""
                /\ Cardinality({k \in 1..Len(hlog) :
                        hlog[k].id = hlog[i].id /\ hlog[k].invoked # ""}) = 1

\* An event was delivered twice: dispatched the first time, answered 202 the
\* second.
C8_Witness ==
    /\ hstore /\ Len(hlog) >= 2
    /\ hlog[1].id = hlog[2].id
    /\ hlog[1].status = "handler" /\ hlog[1].invoked # ""
    /\ hlog[2].registered # "" /\ hlog[2].status = "202" /\ hlog[2].invoked = ""

(***************************************************************************)
(* tax.go: Taxes and Taxes.Reload.                                         *)
(*                                                                         *)
(* Reload starts one goroutine per id.  Each acquires the semaphore, calls *)
(* TaxRate.Load, sends the error (if any) on the unbuffered channel errs,  *)
(* then releases the semaphore and the wait group.  The caller receives    *)
(* from errs and calls errh until errs is closed, which happens once the   *)
(* wait group is done; it then merges under t.mu.                          *)
(***************************************************************************)
\* The tax rates the remote side knows, and the jurisdiction of each.
TaxIds == {"txr_1", "txr_2", "txr_3"}

Jurisdiction(id) == IF id = "txr_2" THEN "fr" ELSE "uk"

\* runtime.GOMAXPROCS(0) and the headroom added to it (tax.go 148).
GOMAXPROCS  == 1
SemHeadroom == 10
SemSize     == GOMAXPROCS + SemHeadroom

\* The id streams Reload is given: what loadIds returns.
Streams == UNION {[1..n -> TaxIds] : n \in 0..MaxIds}

\* &TaxRate{TaxRate: &stripe.TaxRate{ID: id}} (tax.go 157-161).
NewTaxRate(id) == [ID |-> id, Jurisdiction |-> ""]

\* TaxRate.Load: a successful response is decoded into tr; on an error tr is
\* left as it was.
Load(tr, ok) ==
    IF ok THEN [ID |-> tr.ID, Jurisdiction |-> Jurisdiction(tr.ID)] ELSE tr

\* m[k] = v on a Go map.
MapSet(m, k, v) == [x \in DOMAIN m \cup {k} |-> IF x = k THEN v ELSE m[x]]

\* The body of the merge loop without the record of the id (tax.go 192
\* left out).
MergeOne_NoSeen(ids, rates, tr) ==
    IF tr.ID \in ids THEN [ids |-> ids, rates |-> rates]
    ELSE [ids |-> ids, rates |-> MapSet(rates, tr.Jurisdiction, tr)]

\* The body of the merge loop (tax.go 191-194).
MergeOne(ids, rates, tr) ==
    IF tr.ID \in ids THEN [ids |-> ids, rates |-> rates]
    ELSE [ids |-> ids \cup {tr.ID},
          rates |-> MapSet(rates, tr.Jurisdiction, tr)]

\* The merge loop over rates[i..] (tax.go 190-195).
RECURSIVE MergeFrom(_, _, _, _)
MergeFrom(ids, rates, trs, i) ==
    IF i > Len(trs) THEN [ids |-> ids, rates |-> rates]
    ELSE LET m == MergeOne(ids, rates, trs[i])
         IN  MergeFrom(m.ids, m.rates, trs, i + 1)

\* Tasks holding the semaphore.
InFlight(task) ==
    Cardinality({i \in DOMAIN task : task[i] \in {"admitted", "send", "release"}})

\* LoadTaxRates before its call of Reload (tax.go 84-88).
NewTaxes ==
    [ids |-> {}, rates |-> <<>>, pc |-> "idle", stream |-> <<>>,
     task |-> <<>>, trs |-> <<>>, failed |-> {}, errh |-> <<>>,
     fetched |-> {}, loads |-> 0, ret |-> "nil",
     pre |-> [ids |-> {}, rates |-> <<>>]]

InitTax ==
    /\ now = 0
    /\ subscriptions = {}
    /\ invoices = {}
    /\ payment_methods = {}
    /\ nextSub = 0
    /\ last = NoCall
    /\ procs = <<>>
    /\ hstore = TRUE
    /\ hevents = <<>>
    /\ eventLog = {}
    /\ hlog = <<>>
    /\ hlatest = <<>>
    /\ scheduled = {}
    /\ taxes = NewTaxes
    /\ enc = <<>>
    /\ cust = <<>>
    /\ scan = <<>>

TaxFrame == UNCHANGED <<now, subscriptions, invoices, payment_methods, nextSub,
                        last, procs, hstore, hevents, eventLog, hlog, hlatest,
                        scheduled, enc, cust, scan>>

\* Reload up to the start of the goroutines (tax.go 142-176).  A read error
\* of loadIds makes Reload return it at once.
DoReload ==
    /\ taxes.pc = "idle"
    /\ taxes.loads < MaxLoads
    /\ \E stream \in Streams, readOk \in BOOLEAN :
        /\ ~readOk => stream = <<>>
        /\ taxes' =
            IF readOk
            THEN [taxes EXCEPT
                    !.pc = "fetch", !.stream = stream,
                    !.task = [i \in DOMAIN stream |-> "start"],
                    !.trs = [i \in DOMAIN stream |-> NewTaxRate(stream[i])],
                    !.failed = {}, !.errh = <<>>, !.fetched = {},
                    !.ret = "running",
                    !.pre = [ids |-> taxes.ids, rates |-> taxes.rates]]
            ELSE [taxes EXCEPT
                    !.stream = <<>>, !.task = <<>>, !.trs = <<>>,
                    !.failed = {}, !.errh = <<>>, !.fetched = {},
                    !.ret = "read", !.loads = @ + 1,
                    !.pre = [ids |-> taxes.ids, rates |-> taxes.rates]]
    /\ TaxFrame

\* sems <- struct{}{} (tax.go 166).
TaskAdmit(i) ==
    /\ taxes.pc = "fetch"
    /\ taxes.task[i] = "start"
    /\ InFlight(taxes.task) < SemSize
    /\ taxes' = [taxes EXCEPT !.task[i] = "admitted"]
    /\ TaxFrame

\* tr.Load(s) (tax.go 172).
TaskLoad(i) ==
    /\ taxes.pc = "fetch"
    /\ taxes.task[i] = "admitted"
    /\ \E ok \in BOOLEAN :
        taxes' = [taxes EXCEPT
                    !.trs[i] = Load(@, ok),
                    !.task[i] = IF ok THEN "release" ELSE "send",
                    !.failed = IF ok THEN @ ELSE @ \cup {i},
                    !.fetched = @ \cup {i}]
    /\ TaxFrame

\* errs <- err meets the caller's receive, which calls errh(e) (tax.go 173,
\* 183-185).
TaskSend(i) ==
    /\ taxes.pc = "fetch"
    /\ taxes.task[i] = "send"
    /\ taxes' = [taxes EXCEPT !.task[i] = "release", !.errh = Append(@, i)]
    /\ TaxFrame

\* The deferred <-sems and wg.Done() (tax.go 167-170).
TaskRelease(i) ==
    /\ taxes.pc = "fetch"
    /\ taxes.task[i] = "release"
    /\ taxes' = [taxes EXCEPT !.task[i] = "done"]
    /\ TaxFrame

\* A wait group that lets the caller through at once.
Wait_NoJoin(task) == TRUE

\* wg.Wait() returns once every goroutine has called wg.Done() (tax.go 153,
\* 169, 179).
Wait(task) == \A i \in DOMAIN task : task[i] = "done"

\* wg.Wait() returns, errs is closed, the range loop ends and the caller
\* merges under t.mu and returns nil (tax.go 178-196).
Merge ==
    /\ taxes.pc = "fetch"
    /\ Wait(taxes.task)
    /\ LET m == MergeFrom(taxes.ids, taxes.rates, taxes.trs, 1)
       IN  taxes' = [taxes EXCEPT !.ids = m.ids, !.rates = m.rates,
                                  !.pc = "idle", !.ret = "nil",
                                  !.loads = @ + 1]
    /\ TaxFrame

NextTax ==
    \/ DoReload
    \/ \E i \in 1..MaxIds : \/ (i \in DOMAIN taxes.task /\ TaskAdmit(i))
                            \/ (i \in DOMAIN taxes.task /\ TaskLoad(i))
                            \/ (i \in DOMAIN taxes.task /\ TaskSend(i))
                            \/ (i \in DOMAIN taxes.task /\ TaskRelease(i))
    \/ Merge

SpecTax == InitTax /\ [][NextTax]_vars

(***************************************************************************)
(* Properties of SpecTax.                                                  *)
(***************************************************************************)
\* A Reload has returned nil and no other has started since.
LoadDone == taxes.pc = "idle" /\ taxes.loads > 0 /\ taxes.ret = "nil"

\* The ids of the stream of the latest Reload.
StreamIds == {taxes.stream[i] : i \in DOMAIN taxes.stream}

Entries(rates) == Cardinality(DOMAIN rates)

\* No two entries of the table hold the same id.
NoDuplicateEntries(rates) ==
    \A j, k \in DOMAIN rates : rates[j].ID = rates[k].ID => j = k

\* The ids of the stream are pairwise distinct, and so are their
\* jurisdictions.
DistinctGroups ==
    \A i, k \in DOMAIN taxes.stream :
        i # k => /\ taxes.stream[i] # taxes.stream[k]
                 /\ Jurisdiction(taxes.stream[i]) # Jurisdiction(taxes.stream[k])

\* C11 as stated: after a load of N distinct ids whose fetches all succeeded
\* into an empty Taxes the table has exactly N entries, and no load leaves an
\* id in the table twice.
C11_LoaderCompleteness ==
    /\ (LoadDone /\ taxes.failed = {} /\ taxes.pre.ids = {}) =>
           Entries(taxes.rates) = Cardinality(StreamIds)
    /\ LoadDone => NoDuplicateEntries(taxes.rates)

\* C11 amended: after a load whose fetches all succeeded into an empty Taxes,
\* the seen ids are exactly the ids of the stream and the table holds exactly
\* one entry per jurisdiction of those ids, each a rate of the stream with
\* that jurisdiction (so N entries when the N ids have pairwise distinct
\* jurisdictions); after any load no id is in the table twice, a load whose
\* ids were all seen before changes nothing, and the table grows by at most
\* the number of ids not seen before.
C11_LoaderCompletenessPerGroup ==
    /\ (LoadDone /\ taxes.failed = {} /\ taxes.pre.ids = {}) =>
           /\ taxes.ids = StreamIds
           /\ DOMAIN taxes.rates = {Jurisdiction(id) : id \in StreamIds}
           /\ \A j \in DOMAIN taxes.rates :
                  /\ taxes.rates[j].ID \in StreamIds
                  /\ taxes.rates[j].Jurisdiction = j
           /\ DistinctGroups => Entries(taxes.rates) = Len(taxes.stream)
    /\ LoadDone =>
           /\ NoDuplicateEntries(taxes.rates)
           /\ StreamIds \subseteq taxes.pre.ids =>
                  (taxes.rates = taxes.pre.rates /\ taxes.ids = taxes.pre.ids)
           /\ Entries(taxes.rates) <=
                  Entries(taxes.pre.rates) + Cardinality(StreamIds \ taxes.pre.ids)

\* A second load, all fetched, over a stream with one id already seen and one
\* new id of another jurisdiction: the table has two entries.
C11_Witness ==
    /\ LoadDone /\ taxes.loads = 2 /\ taxes.failed = {}
    /\ StreamIds \cap taxes.pre.ids # {}
    /\ StreamIds \ taxes.pre.ids # {}
    /\ Entries(taxes.pre.rates) = 1
    /\ Entries(taxes.rates) = 2

\* C12: after a load of N ids (pairwise distinct, of pairwise distinct
\* jurisdictions, into an empty Taxes) of which K fetches failed, errh was
\* called K times, once per failed id, Reload returned nil and the table has
\* N - K entries.
C12_LoaderIsolation ==
    (LoadDone /\ taxes.pre.ids = {} /\ DistinctGroups) =>
        /\ Len(taxes.errh) = Cardinality(taxes.failed)
        /\ {taxes.errh[k] : k \in DOMAIN taxes.errh} = taxes.failed
        /\ Entries(taxes.rates) = Len(taxes.stream) - Cardinality(taxes.failed)

\* The ids of the latest Reload's stream that an earlier load merged.
SeenBefore == StreamIds \cap taxes.pre.ids

\* C27: a Reload issues no fetch for an id of its stream that an earlier
\* load merged, and once it has returned the table entry holding such an id
\* is as it was (no new id of the stream being merged under the same key).
C27_ReloadOnlyNew ==
    /\ taxes.pc = "fetch" =>
           \A i \in taxes.fetched : taxes.stream[i] \notin taxes.pre.ids
    /\ LoadDone =>
           \A j \in DOMAIN taxes.pre.rates :
               (/\ taxes.pre.rates[j].ID \in SeenBefore
                /\ \A i \in DOMAIN taxes.trs :
                       taxes.trs[i].ID \notin taxes.pre.ids =>
                           taxes.trs[i].Jurisdiction # j) =>
                   (j \in DOMAIN taxes.rates /\ taxes.rates[j] = taxes.pre.rates[j])

(***************************************************************************)
(* stripe.go: Params and its encoder.                                      *)
(*                                                                         *)
(* A Go string is a sequence of one-character strings, so that strings can *)
(* be concatenated, escaped and compared byte by byte.                     *)
(***************************************************************************)
\* The byte of a character, for the characters the model uses.
Code(ch) ==
    CASE ch = " " -> 32 [] ch = "%" -> 37 [] ch = "&" -> 38 [] ch = "+" -> 43
      [] ch = "0" -> 48 [] ch = "1" -> 49 [] ch = "2" -> 50 [] ch = "3" -> 51
      [] ch = "4" -> 52 [] ch = "5" -> 53 [] ch = "6" -> 54 [] ch = "7" -> 55
      [] ch = "8" -> 56 [] ch = "9" -> 57 [] ch = "=" -> 61 [] ch = "@" -> 64
      [] ch = "A" -> 65 [] ch = "B" -> 66 [] ch = "C" -> 67 [] ch = "D" -> 68
      [] ch = "E" -> 69 [] ch = "F" -> 70 [] ch = "[" -> 91 [] ch = "]" -> 93
      [] ch = "a" -> 97 [] ch = "b" -> 98 [] ch = "c" -> 99

\* a < b as Go compares strings: byte-wise, a proper prefix first.
RECURSIVE StrLessFrom(_, _, _)
StrLessFrom(a, b, i) ==
    IF i > Len(b) THEN FALSE
    ELSE IF i > Len(a) THEN TRUE
    ELSE IF Code(a[i]) < Code(b[i]) THEN TRUE
    ELSE IF Code(a[i]) > Code(b[i]) THEN FALSE
    ELSE StrLessFrom(a, b, i + 1)

StrLess(a, b) == StrLessFrom(a, b, 1)

\* strconv.FormatInt(n, 10) and fmt's %v of an int, for n >= 0.
DigitChars == <<"0", "1", "2", "3", "4", "5", "6", "7", "8", "9">>

RECURSIVE FormatInt(_)
FormatInt(n) ==
    IF n < 10 THEN <<DigitChars[n + 1]>>
    ELSE FormatInt(n \div 10) \o <<DigitChars[(n % 10) + 1]>>

\* url.QueryEscape: letters, digits and - _ . ~ are kept, a space becomes
\* +, every other byte becomes %XX in upper-case hexadecimal.
HexChars == DigitChars \o <<"A", "B", "C", "D", "E", "F">>

Unreserved == {"a", "b", "c", "A", "B", "C", "D", "E", "F",
               "0", "1", "2", "3", "4", "5", "6", "7", "8", "9"}

EscapeChar(ch) ==
    IF ch \in Unreserved THEN <<ch>>
    ELSE IF ch = " " THEN <<"+">>
    ELSE <<"%", HexChars[(Code(ch) \div 16) + 1], HexChars[(Code(ch) % 16) + 1]>>

RECURSIVE QueryEscape(_)
QueryEscape(str) ==
    IF str = <<>> THEN <<>>
    ELSE EscapeChar(Head(str)) \o QueryEscape(Tail(str))

\* sort.Strings, as an insertion sort (any correct sort gives the same
\* result: equal strings are indistinguishable).
RECURSIVE InsertSorted(_, _)
InsertSorted(sorted, str) ==
    IF sorted = <<>> THEN <<str>>
    ELSE IF StrLess(str, Head(sorted)) THEN <<str>> \o sorted
    ELSE <<Head(sorted)>> \o InsertSorted(Tail(sorted), str)

RECURSIVE SortStrings(_)
SortStrings(strs) ==
    IF strs = <<>> THEN <<>>
    ELSE InsertSorted(SortStrings(Tail(strs)), Head(strs))

\* strings.Join(strs, sep).
RECURSIVE Join(_, _)
Join(strs, sep) ==
    IF strs = <<>> THEN <<>>
    ELSE IF Len(strs) = 1 THEN strs[1]
    ELSE strs[1] \o sep \o Join(Tail(strs), sep)

\* The values a Params holds: ints, strings, nil, nested Params and slices.
IntV(n)    == [kind |-> "int", n |-> n]
StrV(str)  == [kind |-> "string", str |-> str]
NilV       == [kind |-> "nil"]
ParamsV(m) == [kind |-> "params", m |-> m]
SliceV(es) == [kind |-> "slice", elems |-> es]

\* A map key as a Go string.
KeyStr(k) == <<k>>

\* fmt.Sprintf("%v", v) of an int or a string.
Sprintf(v) == IF v.kind = "int" THEN FormatInt(v.n) ELSE v.str

\* pair.encode (stripe.go 181): the key as it is, the value escaped.
PairEncode(pr) == pr.key \o <<"=">> \o QueryEscape(Sprintf(pr.value))

\* reflect.TypeOf(nil).Kind() panics (stripe.go 196); the pair that stands
\* for it.
PanicPair == [key |-> <<>>, value |-> NilV]

\* The key of a map entry under parent (stripe.go 187-189).
ChildKey(parent, k) ==
    IF parent # <<>> THEN parent \o <<"[">> \o KeyStr(k) \o <<"]">>
    ELSE KeyStr(k)

\* The key of element i counted from one.
IndexKey_OneBased(key, i) == key \o <<"[">> \o FormatInt(i + 1) \o <<"]">>

\* The key of element i of a slice (stripe.go 139).
IndexKey(key, i) == key \o <<"[">> \o FormatInt(i) \o <<"]">>

RECURSIVE RangeFrom(_, _, _, _)
RECURSIVE SliceFrom(_, _, _, _)

\* The loop of encodeSliceToPairs from index i (stripe.go 138-150).
SliceFrom(key, elems, i, ord) ==
    IF i >= Len(elems) THEN <<>>
    ELSE LET k == IndexKey(key, i)
             v == elems[i + 1]
         IN  (IF v.kind = "params" THEN RangeFrom(v.m, k, ord, 1)
              ELSE <<[key |-> k, value |-> v]>>)
             \o SliceFrom(key, elems, i + 1, ord)

\* The loop of Params.encodeToPairs (stripe.go 186-204); the map is ranged
\* over in the order ord puts its keys in.
RangeFrom(m, parent, ord, j) ==
    IF j > Len(ord) THEN <<>>
    ELSE IF ord[j] \notin DOMAIN m THEN RangeFrom(m, parent, ord, j + 1)
    ELSE LET k == ChildKey(parent, ord[j])
             v == m[ord[j]]
         IN  (CASE v.kind = "params" -> RangeFrom(v.m, k, ord, 1)
                [] v.kind = "nil"    -> <<PanicPair>>
                [] v.kind = "slice"  -> SliceFrom(k, v.elems, 0, ord)
                [] OTHER             -> <<[key |-> k, value |-> v]>>)
             \o RangeFrom(m, parent, ord, j + 1)

encodeSliceToPairs(key, elems, ord) == SliceFrom(key, elems, 0, ord)

encodeToPairs(m, parent, ord) == RangeFrom(m, parent, ord, 1)

Panicked == [panic |-> TRUE, str |-> <<>>]

\* Encode without the sort.
Encode_NoSort(m, ord) ==
    LET pairs == encodeToPairs(m, <<>>, ord)
    IN  IF \E i \in DOMAIN pairs : pairs[i] = PanicPair THEN Panicked
        ELSE [panic |-> FALSE,
              str |-> Join([i \in DOMAIN pairs |-> PairEncode(pairs[i])],
                           <<"&">>)]

\* Params.Encode (stripe.go 210-219).
Encode(m, ord) ==
    LET pairs == encodeToPairs(m, <<>>, ord)
    IN  IF \E i \in DOMAIN pairs : pairs[i] = PanicPair THEN Panicked
        ELSE [panic |-> FALSE,
              str |-> Join(SortStrings([i \in DOMAIN pairs |->
                                            PairEncode(pairs[i])]),
                           <<"&">>)]

(***************************************************************************)
(* SpecEnc: Encode called repeatedly on one Params value, each call        *)
(* ranging over the maps in an order of its own.                           *)
(***************************************************************************)
EncKeys   == {"a", "b", "c"}
TopKeys   == {"a", "c"}
InnerKeys == {"b", "c"}

ScalarVals == {IntV(1), IntV(10), StrV(<<"@">>), StrV(<<"&">>)}
InnerVals  == {IntV(1), StrV(<<"@">>)}

\* Params nested in a Params or in a slice.
InnerParams == {ParamsV(m) : m \in UNION {[D -> InnerVals] : D \in SUBSET InnerKeys}}

SliceElems == {IntV(1), IntV(2), ParamsV([k \in {"b"} |-> StrV(<<"@">>)])}

Slices == {SliceV(es) : es \in UNION {[1..n -> SliceElems] : n \in 0..MaxLen}}

TopVals == ScalarVals \cup {NilV} \cup InnerParams \cup Slices

ParamsValues == UNION {[D -> TopVals] : D \in SUBSET TopKeys}

\* The orders a range over a map can visit the keys in.
Orders == {ord \in [1..Cardinality(EncKeys) -> EncKeys] :
              \A i, j \in DOMAIN ord : ord[i] = ord[j] => i = j}

InitEnc ==
    /\ now = 0
    /\ subscriptions = {}
    /\ invoices = {}
    /\ payment_methods = {}
    /\ nextSub = 0
    /\ last = NoCall
    /\ procs = <<>>
    /\ hstore = TRUE
    /\ hevents = <<>>
    /\ eventLog = {}
    /\ hlog = <<>>
    /\ hlatest = <<>>
    /\ scheduled = {}
    /\ taxes = <<>>
    /\ cust = <<>>
    /\ scan = <<>>
    /\ enc \in {[params |-> m, outs |-> <<>>, walks |-> <<>>] : m \in ParamsValues}

\* p.Encode(): outs gets what it returned, walks the pairs in the order
\* encodeToPairs produced them.
DoEncode ==
    /\ Len(enc.outs) < MaxCalls
    /\ \E ord \in Orders :
        enc' = [enc EXCEPT
                  !.outs = Append(@, Encode(enc.params, ord)),
                  !.walks = Append(@, encodeToPairs(enc.params, <<>>, ord))]
    /\ UNCHANGED <<now, subscriptions, invoices, payment_methods, nextSub,
                   last, procs, hstore, hevents, eventLog, hlog, hlatest,
                   scheduled, taxes, cust, scan>>

NextEnc == DoEncode

SpecEnc == InitEnc /\ [][NextEnc]_vars

(***************************************************************************)
(* Properties of SpecEnc.                                                  *)
(***************************************************************************)
\* The pairs of an encoded string: its parts between the & characters.
RECURSIVE SplitFrom(_, _, _)
SplitFrom(str, i, cur) ==
    IF i > Len(str) THEN <<cur>>
    ELSE IF str[i] = "&" THEN <<cur>> \o SplitFrom(str, i + 1, <<>>)
    ELSE SplitFrom(str, i + 1, Append(cur, str[i]))

SplitPairs(str) == IF str = <<>> THEN <<>> ELSE SplitFrom(str, 1, <<>>)

\* C13: every Encode call on one Params value has the same outcome whatever
\* order the maps are ranged over in, and the string returned is its encoded
\* pairs joined by & in ascending byte-wise order of the encoded pair.
C13_EncodeDeterministic ==
    /\ \A i, j \in DOMAIN enc.outs : enc.outs[i] = enc.outs[j]
    /\ \A i \in DOMAIN enc.outs :
          ~enc.outs[i].panic =>
              LET ps == SplitPairs(enc.outs[i].str)
                  w  == enc.walks[i]
              IN  /\ \A k \in 1..(Len(ps) - 1) : ~StrLess(ps[k + 1], ps[k])
                  /\ Len(ps) = Len(w)
                  /\ {ps[k] : k \in DOMAIN ps} =
                         {PairEncode(w[k]) : k \in DOMAIN w}

\* Two calls ranged over the maps in different orders and returned the same
\* string of at least two pairs.
C13_Witness ==
    /\ Len(enc.outs) = 2
    /\ enc.walks[1] # enc.walks[2]
    /\ ~enc.outs[1].panic
    /\ enc.outs[1] = enc.outs[2]
    /\ Len(SplitPairs(enc.outs[1].str)) >= 2

\* The escaped text of each scalar of the model, written out.
ValueText(v) ==
    CASE v = IntV(1)          -> <<"1">>
      [] v = IntV(2)          -> <<"2">>
      [] v = IntV(10)         -> <<"1", "0">>
      [] v = StrV(<<"@">>)    -> <<"%", "4", "0">>
      [] v = StrV(<<"&">>)    -> <<"%", "2", "6">>

IndexText(i) == CASE i = 0 -> "0" [] i = 1 -> "1" [] i = 2 -> "2" [] i = 3 -> "3"

\* The pairs the flattening rules give for the Params m: k=v for a scalar,
\* k[k2]=v for a nested mapping, k[i]=v and k[i][k2]=v for a sequence.
ExpectedPairs(m) ==
    UNION {
        LET v == m[k]
        IN  CASE v.kind = "params" ->
                   {<<k, "[", k2, "]", "=">> \o ValueText(v.m[k2]) :
                        k2 \in DOMAIN v.m}
              [] v.kind = "slice" ->
                   UNION {
                       LET e == v.elems[i]
                           x == IndexText(i - 1)
                       IN  IF e.kind = "params"
                           THEN {<<k, "[", x, "]", "[", k2, "]", "=">>
                                     \o ValueText(e.m[k2]) : k2 \in DOMAIN e.m}
                           ELSE {<<k, "[", x, "]", "=">> \o ValueText(e)}
                       : i \in DOMAIN v.elems}
              [] OTHER -> {<<k, "=">> \o ValueText(v)}
        : k \in DOMAIN m}

\* {a: {b: 1}, c: [1, 2]} and the string a[b]=1&c[0]=1&c[1]=2.
ExampleParams ==
    [k \in {"a", "c"} |->
        IF k = "a" THEN ParamsV([k2 \in {"b"} |-> IntV(1)])
        ELSE SliceV(<<IntV(1), IntV(2)>>)]

ExampleEncoded ==
    <<"a", "[", "b", "]", "=", "1", "&",
      "c", "[", "0", "]", "=", "1", "&",
      "c", "[", "1", "]", "=", "2">>

\* C14: the pairs of the encoded string are exactly those of the flattening
\* rules (parent[k] for a nested mapping, parent[k][i] for a sequence,
\* recursing into mappings that are sequence elements, key=value with the
\* value percent-encoded for scalars), and {a: {b: 1}, c: [1, 2]} encodes to
\* exactly a[b]=1&c[0]=1&c[1]=2.
C14_Flattening ==
    \A i \in DOMAIN enc.outs :
        ~enc.outs[i].panic =>
            LET ps == SplitPairs(enc.outs[i].str)
            IN  /\ {ps[k] : k \in DOMAIN ps} = ExpectedPairs(enc.params)
                /\ Len(ps) = Cardinality(ExpectedPairs(enc.params))
                /\ enc.params = ExampleParams =>
                       enc.outs[i].str = ExampleEncoded

\* Encode was called on {a: {b: 1}, c: [1, 2]}.
C14_Witness ==
    /\ enc.params = ExampleParams
    /\ Len(enc.outs) >= 1
    /\ enc.outs[1] = [panic |-> FALSE, str |-> ExampleEncoded]

(***************************************************************************)
(* Further properties of SpecHook.                                         *)
(***************************************************************************)
\* The delivery was read and verified and, with a store, LogEvent recorded
\* its event as new.
FirstSeen(d) ==
    d.readOk /\ d.sigOk /\ (hstore => (~d.seen /\ d.fail = "none"))

\* C15: an unreadable payload is answered 503, a failed verification 400, a
\* LogEvent failure other than the duplicate 500, a duplicate event 202 and a
\* first-seen event without a registered handler 200; in the 503, 400, 500
\* and 202 cases no handler is invoked, and a 503 or 400 delivery adds no id
\* to the event log.
C15_OutcomeMapping ==
    \A i \in DOMAIN hlog :
        LET d == hlog[i]
        IN  /\ ~d.readOk =>
                   (d.status = "503" /\ d.invoked = "" /\ d.logged = {})
            /\ (d.readOk /\ ~d.sigOk) =>
                   (d.status = "400" /\ d.invoked = "" /\ d.logged = {})
            /\ (/\ d.readOk /\ d.sigOk /\ hstore
                /\ (d.fail = "select" \/ (d.fail = "insert" /\ ~d.seen))) =>
                   (d.status = "500" /\ d.invoked = "")
            /\ (d.readOk /\ d.sigOk /\ hstore /\ d.seen /\ d.fail # "select") =>
                   (d.status = "202" /\ d.invoked = "")
            /\ (FirstSeen(d) /\ d.registered = "") =>
                   (d.status = "200" /\ d.invoked = "")
            /\ d.status \in {"503", "400", "500", "202"} => d.invoked = ""
            /\ d.status \in {"503", "400"} => d.logged = {}

\* A delivery whose signature did not verify was answered 400 and logged
\* nothing; the next delivery of the event was then first-seen, found no
\* handler, was answered 200 and logged the id.
C15_Witness ==
    /\ hstore /\ Len(hlog) = 2
    /\ hlog[1].id = hlog[2].id
    /\ ~hlog[1].sigOk /\ hlog[1].status = "400" /\ hlog[1].logged = {}
    /\ FirstSeen(hlog[2]) /\ hlog[2].registered = ""
    /\ hlog[2].status = "200" /\ hlog[2].logged = {hlog[2].id}

\* C16: a first-seen event is dispatched to the handler of the latest Handle
\* call for its type and to no other, and when there was no Handle call for
\* its type no handler is invoked.
C16_HandleOverwrites ==
    \A i \in DOMAIN hlog :
        FirstSeen(hlog[i]) =>
            /\ hlog[i].invoked = hlog[i].latest
            /\ hlog[i].latest # "" => hlog[i].status = "handler"
            /\ hlog[i].latest = "" => hlog[i].status = "200"

\* A delivery that failed verification found one handler registered for its
\* event's type; the next delivery of the event, first-seen, went to another
\* handler registered since.
C16_Witness ==
    /\ Len(hlog) = 2
    /\ hlog[1].id = hlog[2].id
    /\ hlog[1].status = "400" /\ hlog[1].registered # ""
    /\ FirstSeen(hlog[2])
    /\ hlog[2].invoked # "" /\ hlog[2].invoked # hlog[1].registered
    /\ hlog[2].invoked = hlog[2].latest

\* C36: with a store, a delivery that got past LogEvent recorded the event
\* id whether or not a handler was registered, and no later delivery of that
\* id invokes a handler: it is answered with 202 whenever it is verified and
\* LogEvent's statements run, also when a handler for the type has been
\* registered in between.
C36_LoggedBeforeDispatch ==
    hstore =>
        /\ \A i \in DOMAIN hlog :
               hlog[i].status \in {"200", "handler"} => hlog[i].id \in eventLog
        /\ \A i \in DOMAIN hlog : \A j \in DOMAIN hlog :
               (i < j /\ hlog[i].id = hlog[j].id
                      /\ hlog[i].status \in {"200", "handler"}) =>
                   /\ hlog[j].invoked = ""
                   /\ (hlog[j].readOk /\ hlog[j].sigOk /\ hlog[j].fail = "none")
                          => hlog[j].status = "202"

\* An event first delivered when no handler was registered for its type was
\* delivered again after one had been registered, and answered with 202.
C36_Witness ==
    /\ hstore
    /\ \E i \in DOMAIN hlog : \E j \in DOMAIN hlog :
           /\ i < j /\ hlog[i].id = hlog[j].id
           /\ hlog[i].status = "200" /\ hlog[i].registered = ""
           /\ hlog[j].registered # ""
           /\ hlog[j].status = "202" /\ hlog[j].invoked = ""

(***************************************************************************)
(* Further properties of SpecSub.                                          *)
(***************************************************************************)
\* The subscriptions the orchestrator has in hand: the stored rows, the one
\* the latest call looked up and the one it returned, and nil.
KnownSubs == subscriptions \cup {NilSub, last.pre, last.ret}

C18_ResubscribeWithinGraceOnly ==
    (/\ last.op = "Resubscribe" /\ last.ok
     /\ last.pre.ends_at.Valid /\ last.at >= last.pre.ends_at.Time) =>
        /\ ~Has(last.calls, "reactivate")
        /\ last.writes = <<>>

\* C23: in every reachable state a stored subscription has ends_at set
\* exactly when a successful Unsubscribe has scheduled its cancellation and
\* no successful Resubscribe has superseded that since; the same holds of the
\* subscription a lookup returns.
C23_EndsAtInvariant ==
    /\ \A s \in subscriptions : s.ends_at.Valid <=> s.id \in scheduled
    /\ \A id \in scheduled : Stored(id) # {}
    /\ \A c \in Subscribers : \A lk \in LookupSubscription(subscriptions, c) :
           lk.ok => (lk.sub.ends_at.Valid <=> lk.sub.id \in scheduled)

\* A cancellation was scheduled for the stored subscription and a successful
\* Resubscribe has just superseded it: ends_at is cleared again.
C23_Witness ==
    /\ last.op = "Resubscribe" /\ last.err = "nil"
    /\ last.calls = <<"reactivate">>
    /\ last.pre.ends_at.Valid
    /\ Stored(last.pre.id) = {last.ret}
    /\ ~last.ret.ends_at.Valid /\ last.ret.id \notin scheduled

\* The lifecycle state a subscription is in at time t, read off what Valid
\* and WithinGrace consult: none stored, stored with a status that is not
\* usable, stored with a usable status, cancellation scheduled and ahead,
\* cancellation scheduled and past.
LifecycleState(s, t) ==
    IF s = NilSub THEN "None"
    ELSE IF s.ends_at.Valid
         THEN IF t < s.ends_at.Time THEN "GracePeriod" ELSE "Canceled"
    ELSE IF s.status \in validSubscriptionStatuses THEN "Active"
    ELSE "PendingPayment"

\* The place of a state on None -> PendingPayment -> Active -> GracePeriod ->
\* Canceled.
LifecycleRank(st) ==
    CASE st = "None" -> 0 [] st = "PendingPayment" -> 1 [] st = "Active" -> 2
      [] st = "GracePeriod" -> 3 [] st = "Canceled" -> 4

\* Staying, moving forward along the chain (one call may pass several
\* states), and GracePeriod -> Active.
LifecycleMove(a, b) ==
    \/ LifecycleRank(a) <= LifecycleRank(b)
    \/ (a = "GracePeriod" /\ b = "Active")

\* C24: every call of Subscribe, Unsubscribe or Resubscribe takes the
\* subscription it found (none: state None) from its state before the call to
\* a state after it that is the same, further along None -> PendingPayment ->
\* Active -> GracePeriod -> Canceled, or Active after GracePeriod; and so does
\* the passage of time for every stored subscription.  A reactivation is
\* taken to be answered with a usable status.
C24_LifecycleTransitions ==
    /\ (/\ last.op \in {"Subscribe", "Unsubscribe", "Resubscribe"}
        /\ last.err # "lookup"
        /\ (last.op = "Resubscribe" /\ last.resp # NilResp) =>
               last.resp.status \in validSubscriptionStatuses) =>
           LET before == LifecycleState(last.pre, last.at)
           IN  IF last.ok
               THEN \A r \in Stored(last.pre.id) :
                        LifecycleMove(before, LifecycleState(r, now))
               ELSE \A r \in RowsOf(last.c) :
                        LifecycleMove("None", LifecycleState(r, now))
    /\ \A r \in subscriptions : \A t \in Times :
           LifecycleMove(LifecycleState(r, t), LifecycleState(r, t + 1))

\* The steps of Subscribe in the order of stripe.go 324-380: the lookup, the
\* remote calls and the store writes.
SubscribeSteps ==
    <<"lookup", "attach", "update_customer", "payment_method",
      "create_subscription", "subscription", "invoice">>

RemoteSteps == {"attach", "update_customer", "create_subscription"}
StoreSteps  == {"payment_method", "subscription", "invoice"}

\* The step at which a Subscribe that returned err stopped; a payment intent
\* that neither succeeded nor is processing stops it at the creation.
StoppedAt(err) ==
    CASE err = "lookup"                                 -> 1
      [] err = "attach"                                 -> 2
      [] err = "update_customer"                        -> 3
      [] err \in {"pm_clear", "pm_select", "pm_insert"} -> 4
      [] err \in {"create", "payment_intent"}           -> 5
      [] err = "sub_put"                                -> 6
      [] OTHER                                          -> 7

\* The steps of kind among the first n, in order.
RECURSIVE StepsUpTo(_, _)
StepsUpTo(n, kind) ==
    IF n = 0 THEN <<>>
    ELSE StepsUpTo(n - 1, kind)
         \o (IF SubscribeSteps[n] \in kind THEN <<SubscribeSteps[n]>> ELSE <<>>)

\* C29: a Subscribe call performs a prefix of lookup, attach, customer
\* update, Put(payment method), creation, Put(subscription), Put(invoice): all
\* seven when it returns nil without having found a Valid subscription, the
\* first four when it found one, and on an error the steps up to the one
\* that failed and none after it; the creation is only called when no Valid
\* subscription was found; and what the earlier steps stored is still stored
\* when a later step has failed.
C29_SubscribeStepOrder ==
    last.op = "Subscribe" =>
        LET found == last.ok /\ Valid(last.pre, last.at)
            n     == IF last.err # "nil" THEN StoppedAt(last.err)
                     ELSE IF found THEN 4 ELSE 7
        IN  /\ last.calls = StepsUpTo(n, RemoteSteps)
            /\ last.writes = StepsUpTo(n, StoreSteps)
            /\ Has(last.calls, "create_subscription") => ~found
            /\ n > 4 => SelectId(payment_methods, last.pm.id) # {}
            /\ last.err = "inv_put" => last.ret \in subscriptions
            /\ (found /\ n > 3) => last.pre \in subscriptions

\* A Subscribe created the remote subscription and failed to store it: the
\* payment method it had stored is still there and no invoice was written.
C29_Witness ==
    /\ last.op = "Subscribe"
    /\ last.err = "sub_put"
    /\ SelectId(payment_methods, last.pm.id) # {}
    /\ ~Has(last.writes, "invoice")

\* C38: a Subscribe that found a subscription with a cancellation scheduled
\* for a time still ahead creates nothing and reactivates nothing, and leaves
\* the stored subscription as it found it; when no step fails it has attached
\* the payment method, updated the customer, stored the payment method and
\* returned the subscription it found, ends_at still set.
C38_SubscribeInGrace ==
    (/\ last.op = "Subscribe" /\ last.ok
     /\ last.pre.ends_at.Valid /\ last.at < last.pre.ends_at.Time) =>
        /\ ~Has(last.calls, "create_subscription")
        /\ ~Has(last.calls, "reactivate")
        /\ ~Has(last.writes, "subscription")
        /\ last.pre \in subscriptions
        /\ last.err = "nil" =>
               /\ last.ret = last.pre /\ last.ret.ends_at.Valid
               /\ last.calls = <<"attach", "update_customer">>
               /\ last.writes = <<"payment_method">>
               /\ SelectId(payment_methods, last.pm.id) # {}

\* A Subscribe found a subscription of status incomplete with a cancellation
\* scheduled for a time still ahead and returned it.
C38_Witness ==
    /\ last.op = "Subscribe" /\ last.ok /\ last.err = "nil"
    /\ last.pre.ends_at.Valid /\ last.at < last.pre.ends_at.Time
    /\ last.pre.status = "incomplete"
    /\ last.ret = last.pre

(***************************************************************************)
(* Further properties of SpecStore.                                        *)
(***************************************************************************)
\* C19, for payment methods: the store holds at most one record per id, and
\* a successful Put leaves the record of that id with the default flag of
\* the payment method that was put, whether the id was new or already there.
C19_PutUpserts ==
    /\ \A id \in PmIds : Cardinality(SelectId(payment_methods, id)) <= 1
    /\ (last.op = "Put" /\ last.err = "nil") =>
           \E r \in SelectId(payment_methods, last.pm.id) :
               r.is_default = last.pm.is_default

\* C21: Remove of an id that is not in the table returns nil when the DELETE
\* meets no store failure and leaves the table as it is; a Remove that
\* returns nil leaves exactly the rows of other ids, and a second Remove of
\* the same id after it returns nil and leaves the table as the first left it.
C21_RemoveIdempotent ==
    /\ [](\A id \in PmIds :
            SelectId(payment_methods, id) = {} =>
                Remove(payment_methods, id, "none") =
                    [tbl |-> payment_methods, err |-> "nil"])
    /\ [][(last'.op = "Remove" /\ last'.err = "nil") =>
            /\ payment_methods' = {r \in payment_methods : r.id # last'.pm.id}
            /\ SelectId(payment_methods, last'.pm.id) = {} =>
                   payment_methods' = payment_methods
            /\ Remove(payment_methods', last'.pm.id, "none") =
                   [tbl |-> payment_methods', err |-> "nil"]
            /\ last'.again => payment_methods' = payment_methods]_vars

\* A payment method was removed twice in a row while another stayed stored.
C21_Witness ==
    /\ last.op = "Remove" /\ last.again /\ last.err = "nil"
    /\ SelectId(payment_methods, last.pm.id) = {}
    /\ payment_methods # {}

\* The delivery got as far as calling store.LogEvent.
CallsLogEvent(d) == hstore /\ d.readOk /\ d.sigOk

\* An earlier delivery recorded the id of delivery i.
EarlierLogged(i) ==
    \E k \in 1..(i - 1) : hlog[k].id = hlog[i].id /\ hlog[k].logged = {hlog[i].id}

Emails == {"a@example.com", "b@example.com"}

NilCustomer == [id |-> 0, email |-> "", jurisdiction |-> ""]

\* PSQL.LookupCustomer: SELECT * FROM stripe_customers WHERE email = email.
\* The email column is UNIQUE.
LookupCustomer(tbl, email) ==
    IF \E r \in tbl : r.email = email
    THEN [ok |-> TRUE, c |-> CHOOSE r \in tbl : r.email = email]
    ELSE [ok |-> FALSE, c |-> NilCustomer]

\* A putCustomer that returns nil without inserting a new customer.
putCustomer_NoInsert(tbl, c, fail) ==
    IF fail = "put_lookup" THEN [tbl |-> tbl, err |-> "put_lookup"]
    ELSE IF LookupCustomer(tbl, c.email).ok
    THEN IF fail = "put_update" THEN [tbl |-> tbl, err |-> "put_update"]
         ELSE [tbl |-> {IF r.id = c.id
                        THEN [r EXCEPT !.email = c.email,
                                       !.jurisdiction = c.jurisdiction]
                        ELSE r : r \in tbl},
               err |-> "nil"]
    ELSE IF fail = "put_insert" THEN [tbl |-> tbl, err |-> "put_insert"]
    ELSE [tbl |-> tbl, err |-> "nil"]

\* PSQL.putCustomer: when a row with the email exists, UPDATE email and
\* jurisdiction WHERE id = c.ID; otherwise INSERT.  fail names the statement
\* that returns an error.
putCustomer(tbl, c, fail) ==
    IF fail = "put_lookup" THEN [tbl |-> tbl, err |-> "put_lookup"]
    ELSE IF LookupCustomer(tbl, c.email).ok
    THEN IF fail = "put_update" THEN [tbl |-> tbl, err |-> "put_update"]
         ELSE [tbl |-> {IF r.id = c.id
                        THEN [r EXCEPT !.email = c.email,
                                       !.jurisdiction = c.jurisdiction]
                        ELSE r : r \in tbl},
               err |-> "nil"]
    ELSE IF fail = "put_insert" THEN [tbl |-> tbl, err |-> "put_insert"]
    ELSE [tbl |-> tbl \cup {c}, err |-> "nil"]

\* Stripe.Customer(email) on the table tbl with the remote customers remote.
\* The outcome: the table and the remote customers afterwards, whether the
\* lookup found a row, the error returned, the customer returned and the
\* remote customer created (NilCustomer for none).
Customer(tbl, remote, email, fail) ==
    LET lk  == LookupCustomer(tbl, email)
        new == [id |-> Cardinality(remote) + 1, email |-> email,
                jurisdiction |-> ""]
        p   == putCustomer(tbl, new, fail)
    IN  IF fail = "lookup"
        THEN [tbl |-> tbl, remote |-> remote, found |-> FALSE, err |-> "lookup",
              ret |-> NilCustomer, created |-> NilCustomer]
        ELSE IF lk.ok
        THEN [tbl |-> tbl, remote |-> remote, found |-> TRUE, err |-> "nil",
              ret |-> lk.c, created |-> NilCustomer]
        ELSE IF fail = "post"
        THEN [tbl |-> tbl, remote |-> remote, found |-> FALSE, err |-> "post",
              ret |-> NilCustomer, created |-> NilCustomer]
        ELSE IF fail = "decode"
        THEN [tbl |-> tbl, remote |-> remote \cup {new}, found |-> FALSE,
              err |-> "decode", ret |-> NilCustomer, created |-> new]
        ELSE [tbl |-> p.tbl, remote |-> remote \cup {new}, found |-> FALSE,
              err |-> p.err, ret |-> new, created |-> new]

CustomerFails == {"none", "lookup", "post", "decode", "put_lookup",
                  "put_update", "put_insert"}

(***************************************************************************)
(* SpecCust: sequential Stripe.Customer calls against one PSQL store.      *)
(***************************************************************************)
InitCust ==
    /\ now = 0
    /\ subscriptions = {}
    /\ invoices = {}
    /\ payment_methods = {}
    /\ nextSub = 0
    /\ last = NoCall
    /\ procs = <<>>
    /\ hstore = TRUE
    /\ hevents = <<>>
    /\ eventLog = {}
    /\ hlog = <<>>
    /\ hlatest = <<>>
    /\ scheduled = {}
    /\ taxes = <<>>
    /\ enc = <<>>
    /\ cust = [customers |-> {}, remote |-> {}, calls |-> <<>>]
    /\ scan = <<>>

\* s.Customer(email), recorded with its input, the step that failed, the
\* table before it and its outcome.
DoCustomer ==
    /\ Len(cust.calls) < MaxCustCalls
    /\ \E email \in Emails, fail \in CustomerFails :
        LET o == Customer(cust.customers, cust.remote, email, fail)
        IN  /\ (o.found \/ o.err # fail) => fail = "none"
            /\ cust' = [customers |-> o.tbl, remote |-> o.remote,
                        calls |-> Append(cust.calls,
                                     [email |-> email, fail |-> fail,
                                      pre |-> cust.customers,
                                      found |-> o.found, err |-> o.err,
                                      ret |-> o.ret, created |-> o.created,
                                      post |-> o.tbl])]
    /\ UNCHANGED <<now, subscriptions, invoices, payment_methods, nextSub,
                   last, procs, hstore, hevents, eventLog, hlog, hlatest,
                   scheduled, taxes, enc, scan>>

NextCust == DoCustomer

SpecCust == InitCust /\ [][NextCust]_vars

(***************************************************************************)
(* customer.go: the *Customer value a caller holds, [id, email,            *)
(* jurisdiction], through Customer.Update as Subscribe calls it.  The      *)
(* remote side knows the id and the email of the customer.                 *)
(***************************************************************************)
CustJurisdictions == {"", "uk", "fr"}

\* postCustomer: c := &Customer{}, and on a 2xx response the body decoded
\* into c.Customer; Jurisdiction is not part of the response.
postCustomer(remote, ok) ==
    IF ok THEN [c |-> [id |-> remote.id, email |-> remote.email,
                       jurisdiction |-> ""],
                err |-> "nil"]
    ELSE [c |-> NilCustomer, err |-> "post"]

\* (*Customer).Update: c1, err := postCustomer(...); on success
\* (*c) = (*c1).
Update(c, remote, ok) ==
    LET r == postCustomer(remote, ok)
    IN  IF r.err # "nil" THEN [c |-> c, err |-> r.err]
        ELSE [c |-> r.c, err |-> "nil"]

\* The steps of Subscribe up to the customer update (stripe.go 324-345).
UpdFails == {"none", "lookup", "attach", "update_customer"}

\* What Subscribe does to c: nothing when the lookup or the attach fails,
\* c.Update otherwise; the steps after the update do not assign to c.
SubscribeCustomer(c, remote, fail) ==
    IF fail \in {"lookup", "attach"} THEN [c |-> c, err |-> fail]
    ELSE Update(c, remote, fail # "update_customer")

(***************************************************************************)
(* SpecUpd: a caller holding a stored customer sets its Jurisdiction,      *)
(* stores it and calls Subscribe with it; the remote side may change the   *)
(* email.                                                                  *)
(***************************************************************************)
NoUpd == [op |-> "none", before |-> NilCustomer, fail |-> "none", err |-> "nil"]

InitUpd ==
    /\ now = 0
    /\ subscriptions = {}
    /\ invoices = {}
    /\ payment_methods = {}
    /\ nextSub = 0
    /\ last = NoCall
    /\ procs = <<>>
    /\ hstore = TRUE
    /\ hevents = <<>>
    /\ eventLog = {}
    /\ hlog = <<>>
    /\ hlatest = <<>>
    /\ scheduled = {}
    /\ taxes = <<>>
    /\ enc = <<>>
    /\ \E email \in Emails :
          LET c == [id |-> 1, email |-> email, jurisdiction |-> ""]
          IN  cust = [c |-> c, customers |-> {c},
                      remote |-> [id |-> 1, email |-> email], upd |-> NoUpd]
    /\ scan = <<>>

UpdFrame == UNCHANGED <<now, subscriptions, invoices, payment_methods, nextSub,
                        last, procs, hstore, hevents, eventLog, hlog, hlatest,
                        scheduled, taxes, enc, scan>>

\* The caller assigns c.Jurisdiction.
SetJurisdiction ==
    /\ \E j \in CustJurisdictions :
        cust' = [cust EXCEPT !.c.jurisdiction = j,
                             !.upd = [NoUpd EXCEPT !.op = "set"]]
    /\ UpdFrame

\* The caller stores c: s.Store.Put(c).
PutCustomer ==
    /\ cust' = [cust EXCEPT !.customers = putCustomer(@, cust.c, "none").tbl,
                            !.upd = [NoUpd EXCEPT !.op = "put"]]
    /\ UpdFrame

\* The email of the customer is changed on the remote side.
RemoteEmail ==
    /\ \E email \in Emails :
        /\ email # cust.remote.email
        /\ cust' = [cust EXCEPT !.remote.email = email,
                                !.upd = [NoUpd EXCEPT !.op = "remote"]]
    /\ UpdFrame

\* s.Subscribe(c, pm, params), recorded with c as it was before the call.
SubscribeWith ==
    /\ \E fail \in UpdFails :
        LET o == SubscribeCustomer(cust.c, cust.remote, fail)
        IN  cust' = [cust EXCEPT !.c = o.c,
                                 !.upd = [op |-> "Subscribe", before |-> cust.c,
                                          fail |-> fail, err |-> o.err]]
    /\ UpdFrame

NextUpd == SetJurisdiction \/ PutCustomer \/ RemoteEmail \/ SubscribeWith

SpecUpd == InitUpd /\ [][NextUpd]_vars

\* C39: when Subscribe returns, the Jurisdiction of the customer it was
\* given is what it was before the call.
C39_JurisdictionSurvives ==
    cust.upd.op = "Subscribe" =>
        cust.c.jurisdiction = cust.upd.before.jurisdiction

(***************************************************************************)
(* Further properties of SpecTax.                                          *)
(***************************************************************************)
\* The tasks whose error errh has been called with.
Handled(t) == {t.errh[i] : i \in DOMAIN t.errh}

\* C30: the merge changes the table only when every task is done and errh
\* has been called with the error of every task that failed; after the merge
\* every task is done and every error handled; and errh is only called while
\* the tasks are being fetched, never by the merge or after it.
C30_JoinBeforeMerge ==
    /\ []((taxes.pc = "idle" /\ taxes.ret = "nil") =>
             (/\ \A i \in DOMAIN taxes.task : taxes.task[i] = "done"
              /\ taxes.failed = Handled(taxes)))
    /\ [][(taxes.ids' # taxes.ids \/ taxes.rates' # taxes.rates) =>
             (/\ \A i \in DOMAIN taxes.task : taxes.task[i] = "done"
              /\ taxes.failed = Handled(taxes)
              /\ taxes.errh' = taxes.errh)]_vars
    /\ [][(taxes.errh' # taxes.errh /\ taxes.errh' # <<>>) =>
             (/\ taxes.pc = "fetch" /\ taxes.pc' = "fetch"
              /\ \E i \in DOMAIN taxes.task :
                     /\ taxes.task[i] # "done"
                     /\ taxes.errh' = Append(taxes.errh, i))]_vars

\* A Reload of two ids of which one failed has merged: the error was handled
\* and the other rate is in the table.
C30_Witness ==
    /\ taxes.pc = "idle" /\ taxes.ret = "nil"
    /\ Len(taxes.stream) = 2
    /\ Cardinality(taxes.failed) = 1
    /\ Len(taxes.errh) = 1
    /\ \E i \in DOMAIN taxes.trs : taxes.trs[i].ID \in taxes.ids
                                    /\ taxes.trs[i].Jurisdiction # ""

\* C35: once a Reload has returned, the table has no entry under the empty
\* jurisdiction, and every id it recorded as seen was fetched successfully
\* by one of its tasks, so that an id whose fetches all failed can be loaded
\* by a later Reload.
C35_FailedIdsStayLoadable ==
    LoadDone =>
        /\ "" \notin DOMAIN taxes.rates
        /\ \A id \in taxes.ids \ taxes.pre.ids :
               \E i \in DOMAIN taxes.stream :
                   taxes.stream[i] = id /\ i \notin taxes.failed

(***************************************************************************)
(* Properties of SpecCust.                                                 *)
(***************************************************************************)
\* The remote customers created for an email.
RemoteOf(email) == {r \in cust.remote : r.email = email}

\* The calls for an email that created a remote customer and then returned
\* an error.
LostCreations(email) ==
    {i \in DOMAIN cust.calls :
        /\ cust.calls[i].email = email
        /\ cust.calls[i].created # NilCustomer
        /\ cust.calls[i].err # "nil"}

\* What a single call does: a stored customer is returned without a remote
\* call; otherwise, when no step fails, one customer is created remotely,
\* stored and returned.
GetOrCreate(call) ==
    /\ (call.found /\ call.fail = "none") =>
           /\ call.err = "nil" /\ call.created = NilCustomer
           /\ call.ret \in call.pre /\ call.ret.email = call.email
           /\ call.post = call.pre
    /\ (~call.found /\ call.fail = "none") =>
           /\ call.err = "nil" /\ call.created # NilCustomer
           /\ call.created.email = call.email
           /\ call.ret = call.created
           /\ call.post = call.pre \cup {call.created}

\* C25 as stated: every call gets or creates, and over any number of calls
\* at most one remote customer is created for an email.
C25_CustomerGetOrCreate ==
    /\ \A i \in DOMAIN cust.calls : GetOrCreate(cust.calls[i])
    /\ \A email \in Emails : Cardinality(RemoteOf(email)) <= 1

\* C25 amended: every call gets or creates; at most one row is stored per
\* email; and the remote customers created for an email are at most one
\* more than the calls that created one and then failed to decode or store
\* it, so at most one when no such call failed.
C25_CustomerGetOrCreateUnlessLost ==
    /\ \A i \in DOMAIN cust.calls : GetOrCreate(cust.calls[i])
    /\ \A email \in Emails :
           /\ Cardinality({r \in cust.customers : r.email = email}) <= 1
           /\ Cardinality(RemoteOf(email)) <=
                  1 + Cardinality(LostCreations(email))
           /\ LostCreations(email) = {} => Cardinality(RemoteOf(email)) <= 1
           /\ \A r \in cust.customers : r.email = email => r \in RemoteOf(email)

\* Three calls for one email: the first created and stored the customer, the
\* next two found it and created nothing.
C25_Witness ==
    /\ Len(cust.calls) = 3
    /\ \A i \in 1..3 : cust.calls[i].email = cust.calls[1].email
                       /\ cust.calls[i].err = "nil"
    /\ cust.calls[1].created # NilCustomer
    /\ cust.calls[2].found /\ cust.calls[3].found
    /\ cust.calls[3].ret = cust.calls[1].created
    /\ Cardinality(RemoteOf(cust.calls[1].email)) = 1

(***************************************************************************)
(* tax.go, scanlines.go: the line scanners.  A text is a sequence of        *)
(* one-character strings; position i is the next rune ReadRune returns,    *)
(* and a position past the end is io.EOF.                                  *)
(***************************************************************************)
LF == "\n"
CR == "\r"
HT == "\t"

\* r == ' ' || r == '\t' || r == '\r' || r == '\n' (tax.go 113,
\* scanlines.go 68).
Whitespace == {" ", HT, CR, LF}

\* tax.go skipline from position i: getr gives -1 with a nil error at EOF,
\* which is neither '\n' nor an error, so the loop goes on for ever there.
RECURSIVE TaxSkipline(_, _)
TaxSkipline(text, i) ==
    IF i > Len(text) THEN [hang |-> TRUE, pos |-> i]
    ELSE IF text[i] = LF THEN [hang |-> FALSE, pos |-> i + 1]
    ELSE TaxSkipline(text, i + 1)

\* tax.go scanline from position i: the runes up to '\n' or EOF.
RECURSIVE TaxScanline(_, _)
TaxScanline(text, i) ==
    IF i > Len(text) THEN [line |-> <<>>, pos |-> i]
    ELSE IF text[i] = LF THEN [line |-> <<>>, pos |-> i + 1]
    ELSE LET rest == TaxScanline(text, i + 1)
         IN  [line |-> <<text[i]>> \o rest.line, pos |-> rest.pos]

\* The loop of Taxes.loadIds from position i (tax.go 101-131).
RECURSIVE loadIdsFrom(_, _)
loadIdsFrom(text, i) ==
    IF i > Len(text) THEN [hang |-> FALSE, ids |-> <<>>]
    ELSE IF text[i] \in Whitespace THEN loadIdsFrom(text, i + 1)
    ELSE IF text[i] = "#"
         THEN LET sk == TaxSkipline(text, i + 1)
              IN  IF sk.hang THEN [hang |-> TRUE, ids |-> <<>>]
                  ELSE loadIdsFrom(text, sk.pos)
    ELSE LET sl   == TaxScanline(text, i)
             rest == loadIdsFrom(text, sl.pos)
         IN  [hang |-> rest.hang,
              ids |-> IF rest.hang THEN <<>> ELSE <<sl.line>> \o rest.ids]

\* Taxes.loadIds(r): the ids it returns, or hang when it never returns.
loadIds(text) == loadIdsFrom(text, 1)

\* scanlines.go skipline from position i: the position after the '\n', or
\* EOF.
RECURSIVE skipline(_, _)
skipline(text, i) ==
    IF i > Len(text) THEN i
    ELSE IF text[i] = LF THEN i + 1
    ELSE skipline(text, i + 1)

\* scanlines.go scanline from position i: the literal handed to fn.
RECURSIVE scanline(_, _)
scanline(text, i) ==
    IF i > Len(text) THEN [line |-> <<>>, pos |-> i]
    ELSE IF text[i] = LF THEN [line |-> <<>>, pos |-> i + 1]
    ELSE LET rest == scanline(text, i + 1)
         IN  [line |-> <<text[i]>> \o rest.line, pos |-> rest.pos]

\* The loop of scanlines from position i (scanlines.go 57-84): the lines
\* handed to fn, in order.
RECURSIVE scanlinesFrom(_, _)
scanlinesFrom(text, i) ==
    IF i > Len(text) THEN <<>>
    ELSE IF text[i] \in Whitespace THEN scanlinesFrom(text, i + 1)
    ELSE IF text[i] = "#" THEN scanlinesFrom(text, skipline(text, i + 1))
    ELSE LET sl == scanline(text, i)
         IN  <<sl.line>> \o scanlinesFrom(text, sl.pos)

scanlines(text) == scanlinesFrom(text, 1)

(***************************************************************************)
(* SpecScan: one text read by Taxes.loadIds and by scanlines.              *)
(***************************************************************************)
TextChars == {"x", "y", " ", CR, "#", LF}

Texts == UNION {[1..n -> TextChars] : n \in 0..MaxText}

Unread == [done |-> FALSE, hang |-> FALSE, ids |-> <<>>]

InitScan ==
    /\ now = 0
    /\ subscriptions = {}
    /\ invoices = {}
    /\ payment_methods = {}
    /\ nextSub = 0
    /\ last = NoCall
    /\ procs = <<>>
    /\ hstore = TRUE
    /\ hevents = <<>>
    /\ eventLog = {}
    /\ hlog = <<>>
    /\ hlatest = <<>>
    /\ scheduled = {}
    /\ taxes = <<>>
    /\ enc = <<>>
    /\ cust = <<>>
    /\ scan \in {[text |-> t, tax |-> Unread, lines |-> Unread] : t \in Texts}

ScanFrame == UNCHANGED <<now, subscriptions, invoices, payment_methods, nextSub,
                         last, procs, hstore, hevents, eventLog, hlog, hlatest,
                         scheduled, taxes, enc, cust>>

\* t.loadIds(r) on the text.
DoLoadIds ==
    /\ ~scan.tax.done
    /\ LET r == loadIds(scan.text)
       IN  scan' = [scan EXCEPT !.tax = [done |-> TRUE, hang |-> r.hang,
                                         ids |-> r.ids]]
    /\ ScanFrame

\* scanlines(rd, fn) on the text, fn collecting the lines.
DoScanlines ==
    /\ ~scan.lines.done
    /\ scan' = [scan EXCEPT !.lines = [done |-> TRUE, hang |-> FALSE,
                                       ids |-> scanlines(scan.text)]]
    /\ ScanFrame

NextScan == DoLoadIds \/ DoScanlines

SpecScan == InitScan /\ [][NextScan]_vars

(***************************************************************************)
(* Properties of SpecScan.                                                 *)
(***************************************************************************)
\* The lines of a text: its parts between the line feeds.
RECURSIVE SplitLinesFrom(_, _, _)
SplitLinesFrom(text, i, cur) ==
    IF i > Len(text) THEN <<cur>>
    ELSE IF text[i] = LF THEN <<cur>> \o SplitLinesFrom(text, i + 1, <<>>)
    ELSE SplitLinesFrom(text, i + 1, Append(cur, text[i]))

RECURSIVE TrimLeft(_)
TrimLeft(line) ==
    IF line = <<>> THEN <<>>
    ELSE IF Head(line) \in Whitespace THEN TrimLeft(Tail(line))
    ELSE line

RECURSIVE TrimRight(_)
TrimRight(line) ==
    IF line = <<>> THEN <<>>
    ELSE IF line[Len(line)] \in Whitespace
         THEN TrimRight(SubSeq(line, 1, Len(line) - 1))
    ELSE line

TrimSpace(line) == TrimRight(TrimLeft(line))

\* The ids the parsing rule gives for the lines[k..]: a line that is blank
\* once trimmed or starts with # once trimmed gives none, every other line
\* gives itself trimmed.
RECURSIVE IdsOfLines(_, _)
IdsOfLines(lines, k) ==
    IF k > Len(lines) THEN <<>>
    ELSE LET t == TrimSpace(lines[k])
         IN  (IF t = <<>> \/ Head(t) = "#" THEN <<>> ELSE <<t>>)
             \o IdsOfLines(lines, k + 1)

ExpectedIds(text) == IdsOfLines(SplitLinesFrom(text, 1, <<>>), 1)

\* C26: what loadIds returns (when it returns) and what scanlines hands to
\* its callback are the non-blank, non-comment lines of the text, each with
\* its surrounding whitespace trimmed, in input order.
C26_LoaderParsing ==
    /\ (scan.tax.done /\ ~scan.tax.hang) => scan.tax.ids = ExpectedIds(scan.text)
    /\ scan.lines.done => scan.lines.ids = ExpectedIds(scan.text)

\* C40: Taxes.loadIds and scanlines return on every text, one that ends in
\* a comment line without a line feed and the empty one included.
C40_ParsingTerminates ==
    /\ scan.tax.done => ~scan.tax.hang
    /\ scan.lines.done => ~scan.lines.hang

(***************************************************************************)
(* SpecGet: Taxes.Get concurrent with Taxes.Reload.                        *)
(*                                                                         *)
(* The fetch goroutines touch neither t.mu nor t.ids and t.rates (SpecTax  *)
(* has them step by step), so here Reload up to the end of the range over  *)
(* errs is one step.  From t.mu.Lock() on, every statement that touches    *)
(* the mutex or the table is a step of its own, in Reload and in Get.      *)
(***************************************************************************)
\* The jurisdictions Get is called with.
GetKeys == {"uk", "fr"}

\* The id streams Reload is given here: two tax rates of different
\* jurisdictions, in any order and number.
GetStreams == UNION {[1..n -> {"txr_1", "txr_2"}] : n \in 0..MaxIds}

\* A Get that does not wait for the mutex.
LockReady_NoWait(mu) == TRUE

\* t.mu.Lock() returns only when no one holds the mutex (tax.go 187, 202).
LockReady(mu) == mu = "free"

\* The table once the merge loop has run over all of trs.
Merged(ids, rates, trs) == MergeFrom(ids, rates, trs, 1).rates

\* The merge loop has inserted a part of its batch and not all of it.
MidMerge(t) == t.pc = "merging" /\ 0 < t.k /\ t.k < Len(t.trs)

NoGet == [pc |-> "idle", j |-> "", mid |-> FALSE, had |-> FALSE]

\* No Get has read the table yet.
NoRead == [j |-> "", found |-> FALSE, tr |-> NewTaxRate(""), mid |-> FALSE,
           had |-> FALSE, view |-> <<>>, before |-> <<>>, after |-> <<>>]

InitGet ==
    /\ now = 0
    /\ subscriptions = {}
    /\ invoices = {}
    /\ payment_methods = {}
    /\ nextSub = 0
    /\ last = NoCall
    /\ procs = <<>>
    /\ hstore = TRUE
    /\ hevents = <<>>
    /\ eventLog = {}
    /\ hlog = <<>>
    /\ hlatest = <<>>
    /\ scheduled = {}
    /\ taxes = [ids |-> {}, rates |-> <<>>, pc |-> "idle", trs |-> <<>>,
                k |-> 0, mu |-> "free",
                pre |-> [ids |-> {}, rates |-> <<>>],
                get |-> NoGet, got |-> NoRead]
    /\ enc = <<>>
    /\ cust = <<>>
    /\ scan = <<>>

\* Reload from loadIds to the end of the range over errs (tax.go 142-185):
\* every id of the stream has its TaxRate, loaded or not.
ReloadFetch ==
    /\ taxes.pc = "idle"
    /\ \E stream \in GetStreams : \E oks \in [DOMAIN stream -> BOOLEAN] :
        taxes' = [taxes EXCEPT
                    !.pc = "joined",
                    !.trs = [i \in DOMAIN stream |->
                                Load(NewTaxRate(stream[i]), oks[i])],
                    !.k = 0,
                    !.pre = [ids |-> taxes.ids, rates |-> taxes.rates]]
    /\ TaxFrame

\* t.mu.Lock() in Reload (tax.go 187).
MergeLock ==
    /\ taxes.pc = "joined"
    /\ LockReady(taxes.mu)
    /\ taxes' = [taxes EXCEPT !.pc = "merging", !.mu = "reload"]
    /\ TaxFrame

\* One iteration of the merge loop (tax.go 190-195).
MergeStep ==
    /\ taxes.pc = "merging"
    /\ taxes.k < Len(taxes.trs)
    /\ LET m == MergeOne(taxes.ids, taxes.rates, taxes.trs[taxes.k + 1])
       IN  taxes' = [taxes EXCEPT !.ids = m.ids, !.rates = m.rates,
                                  !.k = @ + 1]
    /\ TaxFrame

\* The end of the loop, return nil and the deferred t.mu.Unlock() (tax.go
\* 188, 196); Reload's locals are gone.
MergeUnlock ==
    /\ taxes.pc = "merging"
    /\ taxes.k = Len(taxes.trs)
    /\ taxes' = [taxes EXCEPT !.pc = "idle", !.mu = "free",
                               !.trs = <<>>, !.k = 0,
                               !.pre = [ids |-> {}, rates |-> <<>>]]
    /\ TaxFrame

\* Another goroutine calls t.Get(j) (tax.go 201); the call is recorded with
\* whether the merge loop was part-way through its batch and whether the
\* table had an entry for j at that moment.
GetCall ==
    /\ taxes.get.pc = "idle"
    /\ \E j \in GetKeys :
        taxes' = [taxes EXCEPT
                    !.get = [pc |-> "lock", j |-> j, mid |-> MidMerge(taxes),
                             had |-> j \in DOMAIN taxes.rates]]
    /\ TaxFrame

\* t.mu.Lock() in Get (tax.go 202).
GetLock ==
    /\ taxes.get.pc = "lock"
    /\ LockReady(taxes.mu)
    /\ taxes' = [taxes EXCEPT !.get.pc = "read", !.mu = "get"]
    /\ TaxFrame

\* tr, ok := t.rates[jurisdiction] (tax.go 205); got is the latest read,
\* recorded with the table as it is at the read and, when a Reload is under
\* way, the table before its merge and the table its merge ends with.
GetRead ==
    /\ taxes.get.pc = "read"
    /\ LET j     == taxes.get.j
           found == j \in DOMAIN taxes.rates
           under == taxes.pc # "idle"
       IN  taxes' = [taxes EXCEPT
                       !.get.pc = "unlock",
                       !.got =
                           [j |-> j, found |-> found,
                            tr |-> IF found THEN taxes.rates[j]
                                   ELSE NewTaxRate(""),
                            mid |-> taxes.get.mid, had |-> taxes.get.had,
                            view |-> taxes.rates,
                            before |-> IF under THEN taxes.pre.rates
                                       ELSE taxes.rates,
                            after |-> IF under
                                      THEN Merged(taxes.pre.ids, taxes.pre.rates,
                                                  taxes.trs)
                                      ELSE taxes.rates]]
    /\ TaxFrame

\* The return and the deferred t.mu.Unlock() (tax.go 203, 207-210).
GetUnlock ==
    /\ taxes.get.pc = "unlock"
    /\ taxes' = [taxes EXCEPT !.get = NoGet,
                              !.mu = IF @ = "get" THEN "free" ELSE @]
    /\ TaxFrame

NextGet == ReloadFetch \/ MergeLock \/ MergeStep \/ MergeUnlock
              \/ GetCall \/ GetLock \/ GetRead \/ GetUnlock

SpecGet == InitGet /\ [][NextGet]_vars

(***************************************************************************)
(* Properties of SpecGet.                                                  *)
(***************************************************************************)
\* C28: the table a Get reads is the table as it was before the merge of the
\* Reload under way or the table that merge ends with, and what Get returns
\* is the entry of that table; the merge loop and a Get never hold the mutex
\* together.
C28_GetAtomicity ==
    /\ taxes.got # NoRead =>
           /\ taxes.got.view \in {taxes.got.before, taxes.got.after}
           /\ taxes.got.found <=> taxes.got.j \in DOMAIN taxes.got.view
           /\ taxes.got.found => taxes.got.tr = taxes.got.view[taxes.got.j]
    /\ ~(taxes.pc = "merging" /\ taxes.get.pc \in {"read", "unlock"})

\* A Get called when the merge loop had inserted a part of its batch and the
\* table had no entry for the jurisdiction yet found the entry.
C28_Witness ==
    /\ taxes.got.mid /\ ~taxes.got.had
    /\ taxes.got.found
    /\ taxes.got.view = taxes.got.after

(***************************************************************************)
(* SpecSem: Reload over more ids than the semaphore admits.                *)
(*                                                                         *)
(* The goroutines of one Reload run the same code and differ only in their *)
(* position, so the state counts the goroutines at each position: before   *)
(* sems <- struct{}{} (start), in tr.Load (admitted), at errs <- err       *)
(* (send), before the deferred <-sems and wg.Done() (release), returned    *)
(* (done).  The caller is in its range over errs, either at the receive    *)
(* (recv) or inside errh (errh); closed says the helper goroutine has got  *)
(* past wg.Wait() and closed errs.                                         *)
(***************************************************************************)
\* A semaphore that admits everyone.
Acquire_NoLimit(held) == TRUE

\* sems <- struct{}{} goes through while the channel buffer has room
\* (tax.go 148, 166).
Acquire(held) == held < SemSize

\* The slots of sems in use: the goroutines between sems <- struct{}{} and
\* the deferred <-sems.
Held(t) == t.admitted + t.send + t.release

\* A caller that only starts to range over errs once the wait group is done.
Receiving_AfterWait(t) == t.caller = "recv" /\ t.done = t.n

\* The caller is at the receive of for e := range errs (tax.go 183).
Receiving(t) == t.caller = "recv"

InitSem ==
    /\ now = 0
    /\ subscriptions = {}
    /\ invoices = {}
    /\ payment_methods = {}
    /\ nextSub = 0
    /\ last = NoCall
    /\ procs = <<>>
    /\ hstore = TRUE
    /\ hevents = <<>>
    /\ eventLog = {}
    /\ hlog = <<>>
    /\ hlatest = <<>>
    /\ scheduled = {}
    /\ taxes = [pc |-> "idle", n |-> 0, start |-> 0, admitted |-> 0, send |-> 0,
                release |-> 0, done |-> 0, failed |-> 0, handled |-> 0,
                caller |-> "idle", closed |-> FALSE]
    /\ enc = <<>>
    /\ cust = <<>>
    /\ scan = <<>>

\* Reload from loadIds to the start of the range over errs (tax.go 142-183):
\* one goroutine per id.
SemReload ==
    /\ taxes.pc = "idle"
    /\ \E n \in 0..MaxTasks :
        taxes' = [pc |-> "fetch", n |-> n, start |-> n, admitted |-> 0,
                  send |-> 0, release |-> 0, done |-> 0, failed |-> 0,
                  handled |-> 0, caller |-> "recv", closed |-> FALSE]
    /\ TaxFrame

\* sems <- struct{}{} (tax.go 166).
SemAcquire ==
    /\ taxes.start > 0
    /\ Acquire(Held(taxes))
    /\ taxes' = [taxes EXCEPT !.start = @ - 1, !.admitted = @ + 1]
    /\ TaxFrame

\* tr.Load(s) returns (tax.go 172).
SemLoad ==
    /\ taxes.admitted > 0
    /\ \E ok \in BOOLEAN :
        taxes' = IF ok
                 THEN [taxes EXCEPT !.admitted = @ - 1, !.release = @ + 1]
                 ELSE [taxes EXCEPT !.admitted = @ - 1, !.send = @ + 1,
                                    !.failed = @ + 1]
    /\ TaxFrame

\* errs <- err meets the caller's receive: errs is unbuffered (tax.go 149,
\* 173, 183).
SemSend ==
    /\ taxes.send > 0
    /\ Receiving(taxes)
    /\ taxes' = [taxes EXCEPT !.send = @ - 1, !.release = @ + 1,
                               !.caller = "errh"]
    /\ TaxFrame

\* errh(e) returns and the caller is back at the receive (tax.go 183-185).
SemErrh ==
    /\ taxes.caller = "errh"
    /\ taxes' = [taxes EXCEPT !.handled = @ + 1, !.caller = "recv"]
    /\ TaxFrame

\* The deferred <-sems and wg.Done() (tax.go 167-170).
SemRelease ==
    /\ taxes.release > 0
    /\ taxes' = [taxes EXCEPT !.release = @ - 1, !.done = @ + 1]
    /\ TaxFrame

\* wg.Wait() returns and errs is closed (tax.go 178-181).
SemClose ==
    /\ taxes.pc = "fetch"
    /\ ~taxes.closed
    /\ taxes.done = taxes.n
    /\ taxes' = [taxes EXCEPT !.closed = TRUE]
    /\ TaxFrame

\* The range over the closed errs ends; Reload merges and returns nil
\* (tax.go 183-196).
SemReturn ==
    /\ taxes.pc = "fetch"
    /\ taxes.caller = "recv"
    /\ taxes.closed
    /\ taxes' = [taxes EXCEPT !.pc = "idle", !.caller = "idle"]
    /\ TaxFrame

NextSem == SemReload \/ SemAcquire \/ SemLoad \/ SemSend \/ SemErrh
              \/ SemRelease \/ SemClose \/ SemReturn

SpecSem == InitSem /\ [][NextSem]_vars

\* Every goroutine that can take a step eventually takes one: tr.Load and
\* errh return, and the scheduler runs every runnable goroutine.
SpecSemFair ==
    /\ SpecSem
    /\ WF_vars(SemAcquire) /\ WF_vars(SemLoad) /\ WF_vars(SemSend)
    /\ WF_vars(SemErrh) /\ WF_vars(SemRelease) /\ WF_vars(SemClose)
    /\ WF_vars(SemReturn)

(***************************************************************************)
(* Properties of SpecSem.                                                  *)
(***************************************************************************)
\* C31: the goroutines that have been admitted by the semaphore and have not
\* released it are never more than GOMAXPROCS + 10.
C31_BoundedConcurrency ==
    /\ taxes.admitted + taxes.send + taxes.release <= GOMAXPROCS + SemHeadroom
    /\ taxes.start + taxes.admitted + taxes.send + taxes.release + taxes.done
           = taxes.n

\* The semaphore is full and a goroutine is waiting for a slot.
C31_Witness ==
    /\ taxes.admitted + taxes.send + taxes.release = GOMAXPROCS + SemHeadroom
    /\ taxes.start > 0

\* C32: a Reload that has started its goroutines eventually has every one of
\* them finished, errs closed and itself returned, with every error handled;
\* goroutines at errs <- err do not stay there.
C32_DeadlockFreedom ==
    /\ (taxes.pc = "fetch") ~> (taxes.done = taxes.n /\ taxes.closed)
    /\ (taxes.pc = "fetch") ~> (taxes.pc = "idle" /\ taxes.handled = taxes.failed)
    /\ (taxes.send > 0) ~> (taxes.send = 0)

\* A Reload over more ids than the semaphore admits, every fetch failing, has
\* returned.
C32_Witness ==
    /\ taxes.pc = "idle"
    /\ taxes.n > GOMAXPROCS + SemHeadroom
    /\ taxes.failed = taxes.n
    /\ taxes.handled = taxes.n

(***************************************************************************)
(* SpecDisp: concurrent calls on one HookHandler with a PSQL store.        *)
(*                                                                         *)
(* Each goroutine makes one call, HandlerFunc for a verified request or    *)
(* Handle.  Its position is the statement it is at: in HandlerFunc the     *)
(* SELECT and the INSERT of PSQL.LogEvent, h.mu.Lock(), the lookup in      *)
(* h.events, the handler (running) and the deferred h.mu.Unlock(); in      *)
(* Handle h.mu.Lock() (hlock), the assignment (hset) and the deferred      *)
(* unlock (hunlock).  A handler is the caller's code: it returns, or it    *)
(* calls Handle on the HookHandler that invoked it (inner).                *)
(***************************************************************************)
NoProc == [pc |-> "idle", id |-> 0, type |-> "", fn |-> "", status |-> "",
           invoked |-> "", logged |-> FALSE, inner |-> FALSE]

\* Goroutine p has locked h.mu and not unlocked it: it is in HandlerFunc
\* between h.mu.Lock() and the deferred unlock (hook.go 86-87), its handler
\* included, or in Handle between the two (hook.go 44-45).
HoldsMu(pr) ==
    \/ pr.pc \in {"lookup", "running", "unlock"}
    \/ pr.inner
    \/ pr.pc \in {"hset", "hunlock"}

\* h.mu.Lock() returns only when no goroutine holds h.mu, the caller
\* included: sync.Mutex is not reentrant.
MuLockReady(ps, p) == \A q \in DOMAIN ps : ~HoldsMu(ps[q])

InitDisp ==
    /\ now = 0
    /\ subscriptions = {}
    /\ invoices = {}
    /\ payment_methods = {}
    /\ nextSub = 0
    /\ last = NoCall
    /\ procs = [p \in Procs |-> NoProc]
    /\ hstore = TRUE
    /\ hevents \in {<<>>, [t \in {"invoice.paid"} |-> "fn_1"]}
    /\ eventLog = {}
    /\ hlog = <<>>
    /\ hlatest = <<>>
    /\ scheduled = {}
    /\ AuxInit

DispFrame == UNCHANGED <<now, subscriptions, invoices, payment_methods, nextSub,
                         last, hstore, hlog, hlatest, scheduled, taxes, enc,
                         cust, scan>>

\* A verified request for event id arrives: HandlerFunc up to the call of
\* h.store.LogEvent (hook.go 57-75).
DStart(p) ==
    /\ procs[p].pc = "idle"
    /\ \E id \in EventIds : procs' = [procs EXCEPT ![p].pc = "select", ![p].id = id]
    /\ UNCHANGED <<hevents, eventLog>>
    /\ DispFrame

\* SELECT COUNT(id) ... and if count > 0 { return ErrEventExists }, which
\* HandlerFunc answers with 202 (psql.go 237-251, hook.go 76-82).
DSelect(p) ==
    /\ procs[p].pc = "select"
    /\ procs' = IF procs[p].id \in eventLog
                THEN [procs EXCEPT ![p].pc = "done", ![p].status = "202"]
                ELSE [procs EXCEPT ![p].pc = "insert"]
    /\ UNCHANGED <<hevents, eventLog>>
    /\ DispFrame

\* INSERT INTO stripe_events: id is UNIQUE, so the statement fails when the
\* id is there by now, and HandlerFunc answers that error with errh and 500
\* (psql.go 253-256, hook.go 76-80).
DInsert(p) ==
    /\ procs[p].pc = "insert"
    /\ IF procs[p].id \in eventLog
       THEN /\ procs' = [procs EXCEPT ![p].pc = "done", ![p].status = "500"]
            /\ UNCHANGED eventLog
       ELSE /\ procs' = [procs EXCEPT ![p].pc = "lock", ![p].logged = TRUE]
            /\ eventLog' = eventLog \cup {procs[p].id}
    /\ UNCHANGED hevents
    /\ DispFrame

\* h.mu.Lock() in HandlerFunc (hook.go 86).
DLock(p) ==
    /\ procs[p].pc = "lock"
    /\ MuLockReady(procs, p)
    /\ procs' = [procs EXCEPT ![p].pc = "lookup"]
    /\ UNCHANGED <<hevents, eventLog>>
    /\ DispFrame

\* if fn, ok := h.events[event.Type]; ok { fn(event, w, r) } else 200
\* (hook.go 89-93).
DLookup(p) ==
    /\ procs[p].pc = "lookup"
    /\ procs' = IF EventType(procs[p].id) \in DOMAIN hevents
                THEN [procs EXCEPT ![p].pc = "running",
                                   ![p].invoked = hevents[EventType(procs[p].id)]]
                ELSE [procs EXCEPT ![p].pc = "unlock", ![p].status = "200"]
    /\ UNCHANGED <<hevents, eventLog>>
    /\ DispFrame

\* The handler returns (hook.go 90-91).
DRunReturn(p) ==
    /\ procs[p].pc = "running"
    /\ procs' = [procs EXCEPT ![p].pc = "unlock", ![p].status = "handler"]
    /\ UNCHANGED <<hevents, eventLog>>
    /\ DispFrame

\* The handler calls h.Handle(type, fn) on the HookHandler that invoked it
\* (hook.go 43, 90).
DRunHandle(p) ==
    /\ procs[p].pc = "running"
    /\ \E type \in EventTypes, fn \in Handlers :
        procs' = [procs EXCEPT ![p].pc = "hlock", ![p].inner = TRUE,
                               ![p].type = type, ![p].fn = fn]
    /\ UNCHANGED <<hevents, eventLog>>
    /\ DispFrame

\* The deferred h.mu.Unlock() of HandlerFunc (hook.go 87).
DUnlock(p) ==
    /\ procs[p].pc = "unlock"
    /\ procs' = [procs EXCEPT ![p].pc = "done"]
    /\ UNCHANGED <<hevents, eventLog>>
    /\ DispFrame

\* A goroutine calls h.Handle(type, fn) (hook.go 43).
HStart(p) ==
    /\ procs[p].pc = "idle"
    /\ \E type \in EventTypes, fn \in Handlers :
        procs' = [procs EXCEPT ![p].pc = "hlock", ![p].type = type, ![p].fn = fn]
    /\ UNCHANGED <<hevents, eventLog>>
    /\ DispFrame

\* h.mu.Lock() in Handle (hook.go 44).
HLock(p) ==
    /\ procs[p].pc = "hlock"
    /\ MuLockReady(procs, p)
    /\ procs' = [procs EXCEPT ![p].pc = "hset"]
    /\ UNCHANGED <<hevents, eventLog>>
    /\ DispFrame

\* h.events[event] = fn (hook.go 46).
HSet(p) ==
    /\ procs[p].pc = "hset"
    /\ hevents' = Handle(hevents, procs[p].type, procs[p].fn)
    /\ procs' = [procs EXCEPT ![p].pc = "hunlock"]
    /\ UNCHANGED eventLog
    /\ DispFrame

\* The deferred h.mu.Unlock() of Handle (hook.go 45); a Handle called by a
\* handler returns into the handler.
HUnlock(p) ==
    /\ procs[p].pc = "hunlock"
    /\ procs' = IF procs[p].inner
                THEN [procs EXCEPT ![p].pc = "running", ![p].inner = FALSE]
                ELSE [procs EXCEPT ![p].pc = "done"]
    /\ UNCHANGED <<hevents, eventLog>>
    /\ DispFrame

DispStep(p) ==
    \/ DStart(p) \/ DSelect(p) \/ DInsert(p) \/ DLock(p) \/ DLookup(p)
    \/ DRunReturn(p) \/ DRunHandle(p) \/ DUnlock(p)
    \/ HStart(p) \/ HLock(p) \/ HSet(p) \/ HUnlock(p)

NextDisp == \E p \in Procs : DispStep(p)

SpecDisp == InitDisp /\ [][NextDisp]_vars

\* Every goroutine that can take a step eventually takes one; whether a
\* request arrives, a Handle is called or a handler calls Handle is up to
\* the callers.
SpecDispFair ==
    /\ SpecDisp
    /\ \A p \in Procs :
          /\ WF_vars(DSelect(p)) /\ WF_vars(DInsert(p)) /\ WF_vars(DLock(p))
          /\ WF_vars(DLookup(p)) /\ WF_vars(DRunReturn(p) \/ DRunHandle(p))
          /\ WF_vars(DUnlock(p))
          /\ WF_vars(HLock(p)) /\ WF_vars(HSet(p)) /\ WF_vars(HUnlock(p))

(***************************************************************************)
(* Properties of SpecDisp.                                                 *)
(***************************************************************************)
\* The HandlerFunc calls for event id that have returned.
Delivered(id) ==
    {p \in Procs : procs[p].pc = "done" /\ procs[p].id = id /\ procs[p].status # ""}

\* C33: of the deliveries of one event id at most one invokes a handler, and
\* every delivery that did not record the id is answered with 202.
C33_ConcurrentDedup ==
    \A id \in EventIds :
        /\ Cardinality({p \in Procs : procs[p].id = id /\ procs[p].invoked # ""}) <= 1
        /\ \A p \in Delivered(id) : ~procs[p].logged => procs[p].status = "202"

\* C34: every Handle call, one made by a running handler included, gets to
\* return with its handler registered, and at most one handler runs at a
\* time.
C34_HandleCompletes ==
    /\ \A p \in Procs :
          (procs[p].pc = "hlock") ~>
              (/\ procs[p].pc = "hunlock"
               /\ procs[p].type \in DOMAIN hevents
               /\ hevents[procs[p].type] = procs[p].fn)
    /\ [](Cardinality({p \in Procs : procs[p].pc = "running" \/ procs[p].inner}) <= 1)

====
